---- MODULE Spec2Model ----
(***************************************************************************)
(* Card catalog synchronisation pipeline of card-craft (the MTG importer): *)
(* ImportBulkData, its worker pool, processBatch and the batch transaction,*)
(* the import cursor (mtg_import_status) and the callers of the importer.  *)
(***************************************************************************)
EXTENDS Integers, Sequences, FiniteSets, TLC

(* ----------------------------- bounds ---------------------------------- *)
\* calls of ImportBulkData in one behaviour
MaxRuns == 2
\* records of the bulk dataset
MaxRecords == 2
\* injected I/O failures (network, stream, storage) in one behaviour
MaxFaults == 1
\* provider-side modifications of the dataset in one behaviour
MaxEdits == 1
\* worker goroutines of one run (numWorkers, 8 in the source)
numWorkers == 2
\* the largest configured batch size (batchSize is 100 in the source)
MaxBatchSize == 2
\* sets the Pokemon API lists, and the non-empty pages of a set
MaxSets == 2
MaxPages == 2
\* the capacity of errorChan (errorChanSize, 100 in the source); the producer
\* takes at most one error per call, so only "empty", "holding errors" and
\* "full" differ
errorChanSize == 1

(* ------------------------ program constants ---------------------------- *)
maxRetries == 3
\* backoff := 2 * time.Second
initialBackoff == 2

\* the processes that call the importer: the server (its scheduler) and the
\* import command
Procs == {"sched", "cli"}
Workers == 1..numWorkers
\* capacity of batchChan and statsChan: numWorkers*2
chanCap == numWorkers * 2

\* no row in mtg_import_status / a nil *time.Time
NoTime == 0
\* a nil *types.Card in cardMap
NoCard == [id |-> <<>>]
\* the clock reading at process start
StartTime == 2

(* ----------------------- the provider dataset -------------------------- *)
\* MTGAPICard, reduced to the natural key (set, collector_number), one base
\* display field (name: name, set_name, rarity and image_uris.large are
\* copied and compared alike), one game-specific field (mana_cost: the
\* mtg_cards columns are copied alike) and the provider timestamp
\* updated_at ("" or unparsable is NoTime) and the release date released_at
\* (a day, here the day 1; "" or unparsable is NoTime).
MTGAPICard(set, num, name, mana, ts) ==
    [set |-> set, collector_number |-> num, name |-> name,
     mana_cost |-> mana, colors |-> <<"W">>, keywords |-> <<>>,
     legalities |-> <<>>, updated_at |-> ts, released_at |-> 1]

InitRecords ==
    { MTGAPICard("neo", "1", "A", "X", NoTime),
      MTGAPICard("neo", "2", "A", "X", 1),
      MTGAPICard("", "1", "A", "X", NoTime) }

Datasets == UNION { [1..n -> InitRecords] : n \in 1..MaxRecords }

(* ----------------------- the dataset stream ---------------------------- *)
\* what json.Decoder meets in the downloaded body: the opening bracket, the
\* elements, the closing bracket. An element is a card, or Malformed (JSON
\* that decoder.Decode(&card) rejects), or Partial (the body ends inside the
\* element, or after the comma that announces it).
ArrayStart == [token |-> "["]
ArrayEnd == [token |-> "]"]
Malformed == [token |-> "malformed"]
Partial == [token |-> "partial"]

Undecodable(e) == e \in {Malformed, Partial}

\* the body of a complete download of the dataset data
Stream(data) == <<ArrayStart>> \o data \o <<ArrayEnd>>

\* the bodies that end before the closing bracket: at the start, after the
\* opening bracket, after a complete element, or inside an element
Truncations(data) ==
    LET s == Stream(data)
    IN  { SubSeq(s, 1, k) : k \in 0..(Len(s) - 1) }
          \cup { Append(SubSeq(s, 1, k), Partial) : k \in 1..(Len(s) - 1) }

\* the bodies in which one element does not decode
Corruptions(data) ==
    { Stream([data EXCEPT ![k] = Malformed]) : k \in 1..Len(data) }

(* --------------------------- batch building ---------------------------- *)
\* the decode loop flushing only when currentBatch exceeds batchSize
RECURSIVE BuildLoop_FlushLate(_, _, _, _, _)
BuildLoop_FlushLate(stream, size, i, batches, currentBatch) ==
    IF i > Len(stream) \/ stream[i] = ArrayEnd
    THEN [err |-> FALSE,
          batches |-> IF Len(currentBatch) > 0 THEN Append(batches, currentBatch)
                      ELSE batches]
    ELSE IF Undecodable(stream[i])
    THEN [err |-> TRUE, batches |-> <<>>]
    ELSE LET cb == Append(currentBatch, stream[i])
         IN  IF Len(cb) > size
             THEN BuildLoop_FlushLate(stream, size, i + 1, Append(batches, cb), <<>>)
             ELSE BuildLoop_FlushLate(stream, size, i + 1, batches, cb)

\* the decode loop going on to the next element when one does not decode
RECURSIVE BuildLoop_SkipUndecodable(_, _, _, _, _)
BuildLoop_SkipUndecodable(stream, size, i, batches, currentBatch) ==
    IF i > Len(stream) \/ stream[i] = ArrayEnd
    THEN [err |-> FALSE,
          batches |-> IF Len(currentBatch) > 0 THEN Append(batches, currentBatch)
                      ELSE batches]
    ELSE IF Undecodable(stream[i])
    THEN BuildLoop_SkipUndecodable(stream, size, i + 1, batches, currentBatch)
    ELSE LET cb == Append(currentBatch, stream[i])
         IN  IF Len(cb) >= size
             THEN BuildLoop_SkipUndecodable(stream, size, i + 1, Append(batches, cb), <<>>)
             ELSE BuildLoop_SkipUndecodable(stream, size, i + 1, batches, cb)

\* the decode loop of ImportBulkData from element i of the stream:
\* decoder.More() is false at the closing bracket and also when the stream
\* has ended (its peek fails); decoder.Decode returns an error on an element
\* that does not decode, and the function returns it; otherwise append to
\* currentBatch, flush it at batchSize, and after the loop flush the final
\* partial batch. The closing bracket is not read.
RECURSIVE BuildLoop(_, _, _, _, _)
BuildLoop(stream, size, i, batches, currentBatch) ==
    IF i > Len(stream) \/ stream[i] = ArrayEnd
    THEN [err |-> FALSE,
          batches |-> IF Len(currentBatch) > 0 THEN Append(batches, currentBatch)
                      ELSE batches]
    ELSE IF Undecodable(stream[i])
    THEN [err |-> TRUE, batches |-> <<>>]
    ELSE LET cb == Append(currentBatch, stream[i])
         IN  IF Len(cb) >= size
             THEN BuildLoop(stream, size, i + 1, Append(batches, cb), <<>>)
             ELSE BuildLoop(stream, size, i + 1, batches, cb)

\* decoder.Token() for the opening bracket (an error when the stream is empty
\* or does not start with a token), then the decode loop
BuildBatches(stream, size) ==
    IF Len(stream) = 0 \/ Undecodable(stream[1])
    THEN [err |-> TRUE, batches |-> <<>>]
    ELSE BuildLoop(stream, size, 2, <<>>, <<>>)

(* ------------------------------ signature ------------------------------ *)
\* sort.Strings over the keys of a map, as encoding/json does for
\* map[string]string: the sequence of <<key, value>> in ascending key order.
\* KeyOrder lists the keys in that order.
KeyOrder == <<"commander", "modern", "standard">>

RECURSIVE SortedPairs(_, _)
SortedPairs(m, i) ==
    IF i > Len(KeyOrder) THEN <<>>
    ELSE IF KeyOrder[i] \in DOMAIN m
         THEN <<(<<KeyOrder[i], m[KeyOrder[i]]>>)>> \o SortedPairs(m, i + 1)
         ELSE SortedPairs(m, i + 1)

\* json.Marshal(CardSignature): the struct fields in declaration order,
\* slices in element order, maps in sorted key order
Marshal(c) ==
    << c.Name, c.ManaCost, c.Colors, c.Keywords, SortedPairs(c.Legalities, 1) >>

\* sha256 over the encoding, taken as injective
Hash(c) == Marshal(c)

\* newSignature of processBatch: from the incoming card
NewSignature(card) ==
    [Name |-> card.name, ManaCost |-> card.mana_cost, Colors |-> card.colors,
     Keywords |-> card.keywords, Legalities |-> card.legalities]

\* existingSignature with the stored colors array not loaded (nil)
ExistingSignature_ColorsNotLoaded(existingCard, mtgCard) ==
    [Name |-> existingCard.name, ManaCost |-> mtgCard.mana_cost,
     Colors |-> <<>>, Keywords |-> mtgCard.keywords,
     Legalities |-> mtgCard.legalities]

\* existingSignature of processBatch: the base fields of the row found by
\* the lookup, the game-specific fields of mtgCard, which at that line is
\* the MTGCard built from the incoming card
ExistingSignature(existingCard, mtgCard) ==
    [Name |-> existingCard.name, ManaCost |-> mtgCard.mana_cost,
     Colors |-> mtgCard.colors, Keywords |-> mtgCard.keywords,
     Legalities |-> mtgCard.legalities]

(* ------------------- provider encodings of a signature ----------------- *)
\* the sequences that list every element of S once
Arrangements(S) ==
    { f \in [1..Cardinality(S) -> S] : \A i, j \in DOMAIN f : f[i] = f[j] => i = j }

\* the JSON arrays without repetition over S
Lists(S) == UNION { Arrangements(T) : T \in SUBSET S }

SigColors == {"W", "U"}
SigKeywords == {"Flying", "Haste"}
SigFormats == {"modern", "standard"}
SigStatus == {"legal", "banned"}

\* a JSON object in the provider's text: its members <<key, value>> in the
\* order they are written, no key twice
ObjectsOver(T) ==
    { [i \in DOMAIN a |-> <<a[i], v[a[i]]>>] : a \in Arrangements(T), v \in [T -> SigStatus] }

Objects == UNION { ObjectsOver(T) : T \in SUBSET SigFormats }

\* the signature fields of one card as the provider writes them
Encodings ==
    [name : {"A"}, mana_cost : {"X"}, colors : Lists(SigColors),
     keywords : Lists(SigKeywords), legalities : Objects]

\* json.Unmarshal of an object into map[string]string
Unmarshal(object) ==
    [k \in { object[i][1] : i \in DOMAIN object } |->
        (CHOOSE m \in { object[i] : i \in DOMAIN object } : m[1] = k)[2]]

\* decoder.Decode(&card) on an encoding: arrays keep their order, the object
\* becomes a map
DecodeCard(enc) ==
    [name |-> enc.name, mana_cost |-> enc.mana_cost, colors |-> enc.colors,
     keywords |-> enc.keywords, legalities |-> Unmarshal(enc.legalities)]

\* the elements of a sequence
Range(f) == { f[i] : i \in DOMAIN f }

\* no Hash() computed yet
NoHash == <<>>

(* ------------------------------ catalog -------------------------------- *)
\* the natural key of a card of the dataset and of a row of cards
\* (fmt.Sprintf("%s:%s", set, number); the game is always 'mtg')
CardKey(card) == <<card.set, card.collector_number>>
RowKey(row) == <<row.set_code, row.number>>

\* card.Set == "" || card.CollectorNumber == ""
MissingKey(card) == card.set = "" \/ card.collector_number = ""

IsNil(c) == c.id = <<>>

\* the cards table without the unique index
idx_cards_unique_Dropped(tbl, row) == TRUE

\* CREATE UNIQUE INDEX idx_cards_unique ON cards(game, set_code, number):
\* may a row with this id and natural key be stored next to the rows of tbl?
idx_cards_unique(tbl, row) ==
    \A c \in tbl : c.id = row.id \/ RowKey(c) # RowKey(row)

\* the lookup query of processBatch over the committed tables: cardMap and
\* missingMtgCards for the keys of the valid cards of the batch
QueryKeys(batch) ==
    { CardKey(batch[i]) : i \in { j \in 1..Len(batch) : ~MissingKey(batch[j]) } }

CardMap(tbl, k) ==
    IF \E c \in tbl : RowKey(c) = k
    THEN CHOOSE c \in tbl : RowKey(c) = k
    ELSE NoCard

\* the lookup without the missingMtgCards bookkeeping
MissingMtgCards_NotTracked(tbl, mtg, k) == FALSE

MissingMtgCards(tbl, mtg, k) ==
    /\ ~IsNil(CardMap(tbl, k))
    /\ ~\E m \in mtg : m.card_id = CardMap(tbl, k).id

(* --------------------------- classification ---------------------------- *)
EmptySets ==
    [cardsToCreate |-> <<>>, mtgCardsToCreate |-> <<>>,
     cardsToUpdate |-> <<>>, mtgCardsToUpdate |-> <<>>]

\* updatedAt of the classification loop: the parsed provider timestamp, or
\* time.Now() when it is empty or does not parse
\* updatedAt left at the zero time when the timestamp is empty or unparsable
UpdatedAtOf_ZeroTime(card, t) == card.updated_at

UpdatedAtOf(card, t) == IF card.updated_at # NoTime THEN card.updated_at ELSE t

\* releasedAt left at the zero time when the release date does not parse
ReleasedAtOf_ZeroTime(card, t) == card.released_at

\* releasedAt of the classification loop: the parsed release date, or
\* time.Now() when it is empty or does not parse
ReleasedAtOf(card, t) == IF card.released_at # NoTime THEN card.released_at ELSE t

\* lastImport != nil && !updatedAt.After(*lastImport)
CursorSkips(card, lastImp, t) ==
    lastImp # NoTime /\ ~(UpdatedAtOf(card, t) > lastImp)

\* one iteration of the classification loop of processBatch for the card at
\* position i of batch b of call r; uuid.New() is the fresh value <<r, b, i>>;
\* the field by of a row records the card the row was last written for
ClassifyOne(acc, card, tbl, mtg, lastImp, t, r, b, i) ==
    LET existingCard == CardMap(tbl, CardKey(card))
        baseCard == [id |-> <<r, b, i>>, name |-> card.name,
                     set_code |-> card.set, number |-> card.collector_number,
                     created_at |-> t, updated_at |-> t, by |-> <<r, b, i>>]
        mtgCard == [id |-> <<r, b, i>>, card_id |-> <<r, b, i>>,
                    mana_cost |-> card.mana_cost, colors |-> card.colors,
                    keywords |-> card.keywords, legalities |-> card.legalities,
                    released_at |-> ReleasedAtOf(card, t),
                    created_at |-> t, updated_at |-> t, by |-> <<r, b, i>>]
    IN  IF MissingKey(card) THEN acc
        ELSE IF CursorSkips(card, lastImp, t) THEN acc
        ELSE IF IsNil(existingCard)
        THEN [acc EXCEPT !.cardsToCreate = Append(@, baseCard),
                         !.mtgCardsToCreate = Append(@, mtgCard)]
        ELSE IF MissingMtgCards(tbl, mtg, CardKey(card))
        THEN [acc EXCEPT !.mtgCardsToCreate =
                 Append(@, [mtgCard EXCEPT !.card_id = existingCard.id])]
        ELSE IF Hash(NewSignature(card)) # Hash(ExistingSignature(existingCard, mtgCard))
        THEN [acc EXCEPT
                 !.cardsToUpdate =
                     Append(@, [baseCard EXCEPT !.id = existingCard.id,
                                                !.created_at = existingCard.created_at]),
                 !.mtgCardsToUpdate =
                     Append(@, [mtgCard EXCEPT !.card_id = existingCard.id,
                                               !.created_at = existingCard.created_at])]
        ELSE acc

RECURSIVE ClassifyLoop(_, _, _, _, _, _, _, _, _)
ClassifyLoop(acc, batch, i, tbl, mtg, lastImp, t, r, b) ==
    IF i > Len(batch) THEN acc
    ELSE ClassifyLoop(ClassifyOne(acc, batch[i], tbl, mtg, lastImp, t, r, b, i),
                      batch, i + 1, tbl, mtg, lastImp, t, r, b)

Classify(batch, tbl, mtg, lastImp, t, r, b) ==
    ClassifyLoop(EmptySets, batch, 1, tbl, mtg, lastImp, t, r, b)

(* ------------------------- batch transaction --------------------------- *)
\* the statements of the transaction body of processBatch, in order
Stmt(op, row) == [op |-> op, row |-> row]
StmtsOf(op, rows) == [i \in 1..Len(rows) |-> Stmt(op, rows[i])]
\* the transaction body without the loop over mtgCardsToCreate
Statements_NoMtgInsert(sets) ==
    StmtsOf("insert_card", sets.cardsToCreate)
    \o StmtsOf("update_card", sets.cardsToUpdate)
    \o StmtsOf("update_mtg", sets.mtgCardsToUpdate)

\* the transaction body with the extension inserts before the base inserts
Statements_MtgInsertFirst(sets) ==
    StmtsOf("insert_mtg", sets.mtgCardsToCreate)
    \o StmtsOf("insert_card", sets.cardsToCreate)
    \o StmtsOf("update_card", sets.cardsToUpdate)
    \o StmtsOf("update_mtg", sets.mtgCardsToUpdate)

Statements(sets) ==
    StmtsOf("insert_card", sets.cardsToCreate)
    \o StmtsOf("insert_mtg", sets.mtgCardsToCreate)
    \o StmtsOf("update_card", sets.cardsToUpdate)
    \o StmtsOf("update_mtg", sets.mtgCardsToUpdate)

\* the UPDATE of cards setting created_at as well
Exec_UpdateSetsCreatedAt(cat, st) ==
    LET row == st.row IN
    CASE st.op = "insert_card" ->
            IF idx_cards_unique(cat.cards, row) /\ ~\E c \in cat.cards : c.id = row.id
            THEN [err |-> FALSE, cat |-> [cat EXCEPT !.cards = @ \cup {row}]]
            ELSE [err |-> TRUE, cat |-> cat]
      [] st.op = "insert_mtg" ->
            IF \E c \in cat.cards : c.id = row.card_id
            THEN [err |-> FALSE, cat |-> [cat EXCEPT !.mtg = @ \cup {row}]]
            ELSE [err |-> TRUE, cat |-> cat]
      [] st.op = "update_card" ->
            IF idx_cards_unique(cat.cards, row)
            THEN [err |-> FALSE,
                  cat |-> [cat EXCEPT !.cards =
                     { IF c.id = row.id
                       THEN [c EXCEPT !.name = row.name, !.set_code = row.set_code,
                                      !.number = row.number,
                                      !.created_at = row.updated_at,
                                      !.updated_at = row.updated_at, !.by = row.by]
                       ELSE c : c \in @ }]]
            ELSE [err |-> TRUE, cat |-> cat]
      [] st.op = "update_mtg" ->
            [err |-> FALSE,
             cat |-> [cat EXCEPT !.mtg =
                { IF m.card_id = row.card_id
                  THEN [m EXCEPT !.mana_cost = row.mana_cost, !.colors = row.colors,
                                 !.keywords = row.keywords,
                                 !.legalities = row.legalities,
                                 !.released_at = row.released_at,
                                 !.updated_at = row.updated_at, !.by = row.by]
                  ELSE m : m \in @ }]]

\* tx.Exec of one statement on the tables as the transaction sees them
Exec(cat, st) ==
    LET row == st.row IN
    CASE st.op = "insert_card" ->
            IF idx_cards_unique(cat.cards, row) /\ ~\E c \in cat.cards : c.id = row.id
            THEN [err |-> FALSE, cat |-> [cat EXCEPT !.cards = @ \cup {row}]]
            ELSE [err |-> TRUE, cat |-> cat]
      [] st.op = "insert_mtg" ->
            IF \E c \in cat.cards : c.id = row.card_id
            THEN [err |-> FALSE, cat |-> [cat EXCEPT !.mtg = @ \cup {row}]]
            ELSE [err |-> TRUE, cat |-> cat]
      [] st.op = "update_card" ->
            IF idx_cards_unique(cat.cards, row)
            THEN [err |-> FALSE,
                  cat |-> [cat EXCEPT !.cards =
                     { IF c.id = row.id
                       THEN [c EXCEPT !.name = row.name, !.set_code = row.set_code,
                                      !.number = row.number,
                                      !.updated_at = row.updated_at, !.by = row.by]
                       ELSE c : c \in @ }]]
            ELSE [err |-> TRUE, cat |-> cat]
      [] st.op = "update_mtg" ->
            [err |-> FALSE,
             cat |-> [cat EXCEPT !.mtg =
                { IF m.card_id = row.card_id
                  THEN [m EXCEPT !.mana_cost = row.mana_cost, !.colors = row.colors,
                                 !.keywords = row.keywords,
                                 !.legalities = row.legalities,
                                 !.released_at = row.released_at,
                                 !.updated_at = row.updated_at, !.by = row.by]
                  ELSE m : m \in @ }]]

\* the callback of WithTransaction: the statements in order, up to the first
\* one that fails (failAt names the statement hit by a storage error, 0 none);
\* at is the statement that failed
RECURSIVE RunStatements(_, _, _, _)
RunStatements(cat, stmts, i, failAt) ==
    IF i > Len(stmts) THEN [err |-> FALSE, cat |-> cat, at |-> 0]
    ELSE IF i = failAt THEN [err |-> TRUE, cat |-> cat, at |-> i]
    ELSE LET res == Exec(cat, stmts[i])
         IN  IF res.err THEN [err |-> TRUE, cat |-> res.cat, at |-> i]
             ELSE RunStatements(res.cat, stmts, i + 1, failAt)

\* WithTransaction without the Rollback: the statements executed before the
\* error stay
WithTransaction_NoRollback(cat, stmts, failAt) ==
    LET res == RunStatements(cat, stmts, 1, failAt)
    IN  IF res.err THEN [err |-> TRUE, cat |-> res.cat, at |-> res.at, open |-> FALSE]
        ELSE IF failAt = Len(stmts) + 1
        THEN [err |-> TRUE, cat |-> res.cat, at |-> failAt, open |-> FALSE]
        ELSE [err |-> FALSE, cat |-> res.cat, at |-> 0, open |-> FALSE]

\* WithTransaction returning fn's error without Rollback: the changes are
\* never committed and the transaction stays open
WithTransaction_NoRollbackCall(cat, stmts, failAt) ==
    LET res == RunStatements(cat, stmts, 1, failAt)
    IN  IF res.err THEN [err |-> TRUE, cat |-> cat, at |-> res.at, open |-> TRUE]
        ELSE IF failAt = Len(stmts) + 1
        THEN [err |-> TRUE, cat |-> cat, at |-> failAt, open |-> FALSE]
        ELSE [err |-> FALSE, cat |-> res.cat, at |-> 0, open |-> FALSE]

\* database.WithTransaction after Begin, on the tables cat: run fn; on an
\* error Rollback and return it; otherwise Commit (failAt = Len(stmts) + 1 is
\* a failed Commit). cat of the result is the committed state afterwards;
\* open tells whether the transaction is still open at the return (Rollback
\* and Commit both end it, a failed Commit included).
WithTransaction(cat, stmts, failAt) ==
    LET res == RunStatements(cat, stmts, 1, failAt)
    IN  IF res.err THEN [err |-> TRUE, cat |-> cat, at |-> res.at, open |-> FALSE]
        ELSE IF failAt = Len(stmts) + 1
        THEN [err |-> TRUE, cat |-> cat, at |-> failAt, open |-> FALSE]
        ELSE [err |-> FALSE, cat |-> res.cat, at |-> 0, open |-> FALSE]

(* ------------------------------- state --------------------------------- *)
VARIABLES
    cards,            \* table cards (game = 'mtg')
    mtg_cards,        \* table mtg_cards
    last_import,      \* mtg_import_status.last_import of row 1, NoTime: no row
    now,              \* the clock read by time.Now()
    upstream,         \* the provider's default_cards dataset
    batchSize,        \* the const batchSize the importer is built with
    faults,           \* I/O failures injected so far
    edits,            \* provider modifications so far
    runs,             \* calls of ImportBulkData so far
    prev,             \* the dataset and return value of the scheduler's previous call
    runId,            \* per process: the number of its current call
    pc,               \* per process: the position of ImportBulkData
    lastImport,       \* per process: lastImport
    retry,            \* per process: retry of downloadBulkData
    reader,           \* per process: the downloaded dataset
    batches,          \* per process: batches
    sent,             \* per process: batches passed by the dispatch loop
    tsArg,            \* per process: the argument time.Now() of the cursor update
    result,           \* per process: "none", or the return value "nil" / "err"
    batchChan,        \* per process: queued batches (indices into batches)
    chanClosed,       \* per process: close(batchChan) done
    errorChan,        \* per process: number of queued errors
    doneChan,         \* per process: close(doneChan) done
    statsChan,        \* per process: queued {inserted, updated}
    statsPc,          \* per process: the stats goroutine, "run" or "exited"
    totalInserted,    \* per process
    totalUpdated,     \* per process
    worker,           \* per process and worker: the worker goroutine
    outcome,          \* per process and batch: how processBatch ended
    cacheFile,        \* the file at the cache path .devbox/cache/mtg_bulk_data.json
    tempFile,         \* per process: the temporary file of its download attempt
    dl,               \* per process: the position of downloadBulkData
    pk,               \* PokemonImporter.ImportLatestSets: its position and locals
    sch,              \* the Scheduler: its loop, ticker and stop channel
    src,              \* two provider encodings of one card's signature fields
    hash              \* the Hash() of the CardSignature built from each

dbVars == <<cards, mtg_cards, last_import>>
envVars == <<now, upstream, batchSize, faults, edits>>
histVars == <<runs, prev, runId>>
prodVars == <<pc, lastImport, retry, reader, batches, sent, tsArg, result>>
chanVars == <<batchChan, chanClosed, errorChan, doneChan, statsChan>>
statVars == <<statsPc, totalInserted, totalUpdated>>
wkVars == <<worker, outcome>>
sigVars == <<src, hash>>
fsVars == <<cacheFile, tempFile, dl>>
schedVars == <<pk, sch>>
vars == <<dbVars, envVars, histVars, prodVars, chanVars, statVars, wkVars, sigVars, fsVars,
          schedVars>>

\* the Pokemon importer before its first call. pages[k] is the number of
\* non-empty pages the API holds for set k; err is the err declared before the
\* retry loop of ImportSet, got tells how that loop ended for the current page
\* and data is len(response.Data) after it
NoPokemon ==
    [pc |-> "idle", pages |-> <<>>, set |-> 0, page |-> 0, retry |-> 0,
     err |-> "nil", got |-> "none", data |-> 0, stored |-> 0, result |-> "none"]

\* the scheduler before Start(): log lists the Import calls made (pass,
\* importer), results what each returned, fires the timer fires the loop
\* received, stopAt where the loop was when Stop() was called
NoScheduler ==
    [pc |-> "new", idx |-> 0, running |-> FALSE, stop |-> FALSE, tick |-> 0,
     fired |-> 0, ticks |-> 0, passes |-> 0, log |-> <<>>, results |-> <<>>,
     stopAt |-> [pc |-> "none", idx |-> 0, running |-> FALSE, run |-> "none"]]

\* a file: absent, or present with the elements written to it so far
NoFile == [exists |-> FALSE, body |-> <<>>]
File(body) == [exists |-> TRUE, body |-> body]

\* downloadBulkData at its entry: the cache check is next, backoff is 2s,
\* no request was made; waits lists the sleep before each request made,
\* stat what the cache check found, resp the body of the response received
NewDownload ==
    [step |-> "stat", backoff |-> initialBackoff, waits |-> <<>>, stat |-> "none",
     resp |-> <<>>]

\* a worker goroutine: its position, the batch it holds, the sets of
\* processBatch, the values processBatch returned, and how its transaction
\* failed (the statement, and whether by an injected storage error)
IdleWorker ==
    [pc |-> "idle", batch |-> 0, sets |-> EmptySets,
     inserted |-> 0, updated |-> 0, err |-> FALSE, failedAt |-> 0, injected |-> FALSE,
     open |-> 0]

\* the state at process start, the dataset, the batch size, the failures and
\* the calls still possible apart
InitState ==
    /\ cards = {}
    /\ mtg_cards = {}
    /\ last_import = NoTime
    /\ now = StartTime
    /\ edits = 0
    /\ prev = [result |-> "none", data |-> <<>>]
    /\ runId = [p \in Procs |-> 0]
    /\ pc = [p \in Procs |-> "idle"]
    /\ lastImport = [p \in Procs |-> NoTime]
    /\ retry = [p \in Procs |-> 0]
    /\ reader = [p \in Procs |-> <<>>]
    /\ batches = [p \in Procs |-> <<>>]
    /\ sent = [p \in Procs |-> 0]
    /\ tsArg = [p \in Procs |-> NoTime]
    /\ result = [p \in Procs |-> "none"]
    /\ batchChan = [p \in Procs |-> <<>>]
    /\ chanClosed = [p \in Procs |-> FALSE]
    /\ errorChan = [p \in Procs |-> 0]
    /\ doneChan = [p \in Procs |-> FALSE]
    /\ statsChan = [p \in Procs |-> <<>>]
    /\ statsPc = [p \in Procs |-> "idle"]
    /\ totalInserted = [p \in Procs |-> 0]
    /\ totalUpdated = [p \in Procs |-> 0]
    /\ worker = [p \in Procs |-> [w \in Workers |-> IdleWorker]]
    /\ outcome = [p \in Procs |-> <<>>]
    /\ cacheFile = NoFile
    /\ tempFile = [p \in Procs |-> NoFile]
    /\ dl = [p \in Procs |-> NewDownload]
    /\ pk = NoPokemon
    /\ sch = NoScheduler

\* no signature is being hashed
NoSrc == <<>>

Init ==
    /\ InitState
    /\ upstream \in Datasets
    /\ batchSize \in 1..MaxBatchSize
    /\ faults = 0
    /\ runs = 0
    /\ src = NoSrc
    /\ hash = NoSrc

(* ------------------------------ callers -------------------------------- *)
\* no worker of the last call of p holds a batch and none is queued for it
Quiescent(p) ==
    /\ Len(batchChan[p]) = 0
    /\ \A w \in Workers : worker[p][w].pc \in {"idle", "range", "exited"}

\* a call of ImportBulkData begins: its locals are fresh
BeginCall(p) ==
    /\ runs < MaxRuns
    /\ runs' = runs + 1
    /\ runId' = [runId EXCEPT ![p] = runs + 1]
    /\ pc' = [pc EXCEPT ![p] = "fetchInfo"]
    /\ lastImport' = [lastImport EXCEPT ![p] = NoTime]
    /\ retry' = [retry EXCEPT ![p] = 0]
    /\ reader' = [reader EXCEPT ![p] = <<>>]
    /\ batches' = [batches EXCEPT ![p] = <<>>]
    /\ sent' = [sent EXCEPT ![p] = 0]
    /\ tsArg' = [tsArg EXCEPT ![p] = NoTime]
    /\ result' = [result EXCEPT ![p] = "none"]
    /\ batchChan' = [batchChan EXCEPT ![p] = <<>>]
    /\ chanClosed' = [chanClosed EXCEPT ![p] = FALSE]
    /\ errorChan' = [errorChan EXCEPT ![p] = 0]
    /\ doneChan' = [doneChan EXCEPT ![p] = FALSE]
    /\ statsChan' = [statsChan EXCEPT ![p] = <<>>]
    /\ statsPc' = [statsPc EXCEPT ![p] = "idle"]
    /\ totalInserted' = [totalInserted EXCEPT ![p] = 0]
    /\ totalUpdated' = [totalUpdated EXCEPT ![p] = 0]
    /\ worker' = [worker EXCEPT ![p] = [w \in Workers |-> IdleWorker]]
    /\ outcome' = [outcome EXCEPT ![p] = <<>>]
    /\ dl' = [dl EXCEPT ![p] = NewDownload]

\* Scheduler.importCards: the scheduler loop calls Import, and with it
\* ImportBulkData, at start and at every tick once the previous call has
\* returned; the ticker period (24h) is taken to outlast the batches still
\* held by workers of that call, and goroutines it left blocked stay blocked
ImportCards ==
    /\ pc["sched"] \in {"idle", "returned"}
    /\ Quiescent("sched")
    /\ BeginCall("sched")
    /\ prev' = [result |-> result["sched"], data |-> reader["sched"]]
    /\ UNCHANGED <<dbVars, envVars, schedVars, sigVars, cacheFile, tempFile>>

\* cmd/import main with -game mtg: the status row is deleted when
\* -clear-status is given, then Import is called; the process runs once
CLIImport(clearStatus) ==
    /\ pc["cli"] = "idle"
    /\ BeginCall("cli")
    /\ last_import' = IF clearStatus THEN NoTime ELSE last_import
    /\ UNCHANGED <<cards, mtg_cards, prev>>
    /\ UNCHANGED <<envVars, schedVars, sigVars, cacheFile, tempFile>>

\* the provider changes one field of one card of the dataset and stamps the
\* card when it carries a timestamp; a change made between the cursor write
\* of a call and the next download is taken just before that download (a
\* change made while a call is in flight is UpstreamEditInFlight)
EditCard(card, field, t) ==
    LET c1 == IF field = "name"
              THEN [card EXCEPT !.name = IF @ = "A" THEN "B" ELSE "A"]
              ELSE [card EXCEPT !.mana_cost = IF @ = "X" THEN "Y" ELSE "X"]
    IN  [c1 EXCEPT !.updated_at = IF @ = NoTime THEN NoTime ELSE t]

UpstreamEdit ==
    /\ edits < MaxEdits
    /\ prev.result # "none"
    /\ pc["sched"] = "download"
    /\ retry["sched"] = 0
    /\ \E i \in 1..Len(upstream), field \in {"name", "mana_cost"} :
          upstream' = [upstream EXCEPT ![i] = EditCard(@, field, now)]
    /\ edits' = edits + 1
    /\ UNCHANGED <<now, batchSize, faults>>
    /\ UNCHANGED <<fsVars, schedVars, sigVars, histVars, dbVars, prodVars, chanVars, statVars, wkVars>>

\* the provider changes a card, stamping it with the current time, while the
\* call of the scheduler is between its download and its cursor write
UpstreamEditInFlight ==
    /\ edits < MaxEdits
    /\ pc["sched"] \in {"decode", "dispatch", "wait", "now"}
    /\ \E i \in 1..Len(upstream), field \in {"name", "mana_cost"} :
          upstream' = [upstream EXCEPT ![i] = EditCard(@, field, now)]
    /\ edits' = edits + 1
    /\ UNCHANGED <<now, batchSize, faults>>
    /\ UNCHANGED <<fsVars, schedVars, sigVars, histVars, dbVars, prodVars, chanVars, statVars, wkVars>>

(* --------------------------- ImportBulkData ---------------------------- *)
Return(p, res) ==
    /\ pc' = [pc EXCEPT ![p] = "returned"]
    /\ result' = [result EXCEPT ![p] = res]

Fault ==
    /\ faults < MaxFaults
    /\ faults' = faults + 1
    /\ UNCHANGED <<now, upstream, batchSize, edits>>

\* i.fetchBulkDataInfo(ctx) succeeds
FetchBulkDataInfo(p) ==
    /\ pc[p] = "fetchInfo"
    /\ pc' = [pc EXCEPT ![p] = "getCursor"]
    /\ UNCHANGED <<lastImport, retry, reader, batches, sent, tsArg, result>>
    /\ UNCHANGED <<fsVars, schedVars, sigVars, histVars, dbVars, envVars, chanVars, statVars, wkVars>>

\* i.fetchBulkDataInfo(ctx) fails: return the error
FetchBulkDataInfoFail(p) ==
    /\ pc[p] = "fetchInfo"
    /\ Fault
    /\ Return(p, "err")
    /\ UNCHANGED <<lastImport, retry, reader, batches, sent, tsArg>>
    /\ UNCHANGED <<fsVars, schedVars, sigVars, histVars, dbVars, chanVars, statVars, wkVars>>

\* i.getLastImportTimestamp(ctx): the stored cursor, nil on sql.ErrNoRows
GetLastImportTimestamp(p) ==
    /\ pc[p] = "getCursor"
    /\ lastImport' = [lastImport EXCEPT ![p] = last_import]
    /\ pc' = [pc EXCEPT ![p] = "download"]
    /\ UNCHANGED <<retry, reader, batches, sent, tsArg, result>>
    /\ UNCHANGED <<fsVars, schedVars, sigVars, histVars, dbVars, envVars, chanVars, statVars, wkVars>>

GetLastImportTimestampFail(p) ==
    /\ pc[p] = "getCursor"
    /\ Fault
    /\ Return(p, "err")
    /\ UNCHANGED <<lastImport, retry, reader, batches, sent, tsArg>>
    /\ UNCHANGED <<fsVars, schedVars, sigVars, histVars, dbVars, chanVars, statVars, wkVars>>

\* downloadBulkData as one step, the cache file being absent or older than
\* 24h: an attempt of the retry loop succeeds, the body replaces the cache
\* file and is opened
DownloadBulkData(p) ==
    /\ pc[p] = "download"
    /\ retry[p] < maxRetries
    /\ reader' = [reader EXCEPT ![p] = Stream(upstream)]
    /\ cacheFile' = File(Stream(upstream))
    /\ pc' = [pc EXCEPT ![p] = "decode"]
    /\ UNCHANGED <<lastImport, retry, batches, sent, tsArg, result>>
    /\ UNCHANGED <<tempFile, dl>>
    /\ UNCHANGED <<schedVars, sigVars, histVars, dbVars, envVars, chanVars, statVars, wkVars>>

\* downloadBulkData returns a body of which one element does not decode
DownloadMalformed(p) ==
    /\ pc[p] = "download"
    /\ retry[p] < maxRetries
    /\ Fault
    /\ \E body \in Corruptions(upstream) :
          /\ reader' = [reader EXCEPT ![p] = body]
          /\ cacheFile' = File(body)
    /\ pc' = [pc EXCEPT ![p] = "decode"]
    /\ UNCHANGED <<lastImport, retry, batches, sent, tsArg, result>>
    /\ UNCHANGED <<tempFile, dl>>
    /\ UNCHANGED <<schedVars, sigVars, histVars, dbVars, chanVars, statVars, wkVars>>

\* downloadBulkData returns a body that ends before the closing bracket:
\* the provider's response ended there without a transfer error, so io.Copy
\* succeeded and the short body became the cache file
DownloadTruncated(p) ==
    /\ pc[p] = "download"
    /\ retry[p] < maxRetries
    /\ \E body \in Truncations(upstream) :
          /\ reader' = [reader EXCEPT ![p] = body]
          /\ cacheFile' = File(body)
    /\ pc' = [pc EXCEPT ![p] = "decode"]
    /\ UNCHANGED <<lastImport, retry, batches, sent, tsArg, result>>
    /\ UNCHANGED <<tempFile, dl>>
    /\ UNCHANGED <<schedVars, sigVars, histVars, dbVars, envVars, chanVars, statVars, wkVars>>

\* downloadBulkData: one attempt fails (continue); after maxRetries attempts
\* the loop ends and ImportBulkData returns the error
DownloadAttemptFail(p) ==
    /\ pc[p] = "download"
    /\ retry[p] < maxRetries
    /\ retry' = [retry EXCEPT ![p] = @ + 1]
    /\ IF retry[p] + 1 >= maxRetries
       THEN Return(p, "err")
       ELSE UNCHANGED <<pc, result>>
    /\ UNCHANGED <<lastImport, reader, batches, sent, tsArg>>
    /\ UNCHANGED <<fsVars, schedVars, sigVars, histVars, dbVars, envVars, chanVars, statVars, wkVars>>

(* ------------------- downloadBulkData, step by step -------------------- *)
\* the cache check returning the file whatever its age
CacheCheck_IgnoresAge(p) ==
    /\ pc[p] = "download"
    /\ dl[p].step = "stat"
    /\ \E fresh \in BOOLEAN, opens \in BOOLEAN :
          LET stat == IF ~cacheFile.exists THEN "absent"
                      ELSE IF ~fresh THEN "stale"
                      ELSE IF ~opens THEN "unopenable"
                      ELSE "hit"
              use == cacheFile.exists /\ opens
          IN  /\ dl' = [dl EXCEPT ![p].stat = stat,
                                  ![p].step = IF use THEN "done" ELSE "request"]
              /\ IF use
                 THEN /\ reader' = [reader EXCEPT ![p] = cacheFile.body]
                      /\ pc' = [pc EXCEPT ![p] = "decode"]
                 ELSE UNCHANGED <<reader, pc>>
    /\ UNCHANGED <<lastImport, retry, batches, sent, tsArg, result>>
    /\ UNCHANGED <<cacheFile, tempFile>>
    /\ UNCHANGED <<schedVars, sigVars, histVars, dbVars, envVars, chanVars, statVars, wkVars>>

\* the cache check: os.Stat(cacheFile), time.Since(info.ModTime()) < 24h,
\* os.Open(cacheFile). The age of the file and whether it opens are inputs.
\* A hit returns the file; otherwise the retry loop is entered.
CacheCheck(p) ==
    /\ pc[p] = "download"
    /\ dl[p].step = "stat"
    /\ \E fresh \in BOOLEAN, opens \in BOOLEAN :
          LET stat == IF ~cacheFile.exists THEN "absent"
                      ELSE IF ~fresh THEN "stale"
                      ELSE IF ~opens THEN "unopenable"
                      ELSE "hit"
          IN  /\ dl' = [dl EXCEPT ![p].stat = stat,
                                  ![p].step = IF stat = "hit" THEN "done" ELSE "request"]
              /\ IF stat = "hit"
                 THEN /\ reader' = [reader EXCEPT ![p] = cacheFile.body]
                      /\ pc' = [pc EXCEPT ![p] = "decode"]
                 ELSE UNCHANGED <<reader, pc>>
    /\ UNCHANGED <<lastImport, retry, batches, sent, tsArg, result>>
    /\ UNCHANGED <<cacheFile, tempFile>>
    /\ UNCHANGED <<schedVars, sigVars, histVars, dbVars, envVars, chanVars, statVars, wkVars>>

\* `continue` reached on the first failure ending the function with an error
Continue_ReturnsError(p, d) ==
    /\ retry' = [retry EXCEPT ![p] = @ + 1]
    /\ Return(p, "err")
    /\ dl' = [dl EXCEPT ![p] = [d EXCEPT !.step = "done"]]

\* `continue` in the retry loop, d being the position reached: retry++, and
\* when retry < maxRetries fails the function returns the error
Continue(p, d) ==
    /\ retry' = [retry EXCEPT ![p] = @ + 1]
    /\ IF retry[p] + 1 >= maxRetries
       THEN /\ Return(p, "err")
            /\ dl' = [dl EXCEPT ![p] = [d EXCEPT !.step = "done"]]
       ELSE /\ UNCHANGED <<pc, result>>
            /\ dl' = [dl EXCEPT ![p] = [d EXCEPT !.step = "request"]]

\* the head of an iteration: time.Sleep(backoff) and backoff *= 2 when
\* retry > 0, then the GET
Slept(p) ==
    [dl[p] EXCEPT !.waits = Append(@, IF retry[p] > 0 THEN dl[p].backoff ELSE 0),
                  !.backoff = IF retry[p] > 0 THEN 2 * @ ELSE @]

\* i.client.Do(req) returns a response with status 200
Request(p) ==
    /\ pc[p] = "download"
    /\ dl[p].step = "request"
    /\ retry[p] < maxRetries
    /\ dl' = [dl EXCEPT ![p] = [Slept(p) EXCEPT !.step = "temp",
                                                !.resp = Stream(upstream)]]
    /\ UNCHANGED <<pc, lastImport, retry, reader, batches, sent, tsArg, result>>
    /\ UNCHANGED <<cacheFile, tempFile>>
    /\ UNCHANGED <<schedVars, sigVars, histVars, dbVars, envVars, chanVars, statVars, wkVars>>

\* i.client.Do(req) fails or the status is not 200: continue
RequestFail(p) ==
    /\ pc[p] = "download"
    /\ dl[p].step = "request"
    /\ retry[p] < maxRetries
    /\ Continue(p, Slept(p))
    /\ UNCHANGED <<lastImport, reader, batches, sent, tsArg>>
    /\ UNCHANGED <<cacheFile, tempFile>>
    /\ UNCHANGED <<schedVars, sigVars, histVars, dbVars, envVars, chanVars, statVars, wkVars>>

\* os.CreateTemp(cacheDir, "mtg_bulk_data_*.json")
CreateTemp(p) ==
    /\ pc[p] = "download"
    /\ dl[p].step = "temp"
    /\ tempFile' = [tempFile EXCEPT ![p] = File(<<>>)]
    /\ dl' = [dl EXCEPT ![p].step = "copy"]
    /\ UNCHANGED <<pc, lastImport, retry, reader, batches, sent, tsArg, result>>
    /\ UNCHANGED cacheFile
    /\ UNCHANGED <<schedVars, sigVars, histVars, dbVars, envVars, chanVars, statVars, wkVars>>

CreateTempFail(p) ==
    /\ pc[p] = "download"
    /\ dl[p].step = "temp"
    /\ Continue(p, dl[p])
    /\ UNCHANGED <<lastImport, reader, batches, sent, tsArg>>
    /\ UNCHANGED <<cacheFile, tempFile>>
    /\ UNCHANGED <<schedVars, sigVars, histVars, dbVars, envVars, chanVars, statVars, wkVars>>

\* io.Copy writing the response body straight to the cache path
Copy_IntoCacheFile(p) ==
    LET body == dl[p].resp
        n == Len(tempFile[p].body)
    IN  /\ pc[p] = "download"
        /\ dl[p].step = "copy"
        /\ IF n < Len(body)
           THEN /\ tempFile' = [tempFile EXCEPT ![p] = File(Append(@.body, body[n + 1]))]
                /\ cacheFile' = File(Append(tempFile[p].body, body[n + 1]))
                /\ UNCHANGED dl
           ELSE /\ dl' = [dl EXCEPT ![p].step = "rename"]
                /\ UNCHANGED <<tempFile, cacheFile>>
        /\ UNCHANGED <<pc, lastImport, retry, reader, batches, sent, tsArg, result>>
        /\ UNCHANGED <<schedVars, sigVars, histVars, dbVars, envVars, chanVars, statVars, wkVars>>

\* io.Copy(tempFile, resp.Body): the next part of the body is written to the
\* temporary file; at the end of the body, resp.Body.Close and tempFile.Close
Copy(p) ==
    LET body == dl[p].resp
        n == Len(tempFile[p].body)
    IN  /\ pc[p] = "download"
        /\ dl[p].step = "copy"
        /\ IF n < Len(body)
           THEN /\ tempFile' = [tempFile EXCEPT ![p] = File(Append(@.body, body[n + 1]))]
                /\ UNCHANGED dl
           ELSE /\ dl' = [dl EXCEPT ![p].step = "rename"]
                /\ UNCHANGED tempFile
        /\ UNCHANGED cacheFile
        /\ UNCHANGED <<pc, lastImport, retry, reader, batches, sent, tsArg, result>>
        /\ UNCHANGED <<schedVars, sigVars, histVars, dbVars, envVars, chanVars, statVars, wkVars>>

\* io.Copy returns an error before the end of the body: the temporary file
\* is closed and removed; continue
CopyFail(p) ==
    /\ pc[p] = "download"
    /\ dl[p].step = "copy"
    /\ Len(tempFile[p].body) < Len(dl[p].resp)
    /\ tempFile' = [tempFile EXCEPT ![p] = NoFile]
    /\ Continue(p, dl[p])
    /\ UNCHANGED <<lastImport, reader, batches, sent, tsArg>>
    /\ UNCHANGED cacheFile
    /\ UNCHANGED <<schedVars, sigVars, histVars, dbVars, envVars, chanVars, statVars, wkVars>>

\* os.Rename(tempFile.Name(), cacheFile)
Rename(p) ==
    /\ pc[p] = "download"
    /\ dl[p].step = "rename"
    /\ cacheFile' = tempFile[p]
    /\ tempFile' = [tempFile EXCEPT ![p] = NoFile]
    /\ dl' = [dl EXCEPT ![p].step = "open"]
    /\ UNCHANGED <<pc, lastImport, retry, reader, batches, sent, tsArg, result>>
    /\ UNCHANGED <<schedVars, sigVars, histVars, dbVars, envVars, chanVars, statVars, wkVars>>

\* os.Rename fails: the temporary file is removed; continue
RenameFail(p) ==
    /\ pc[p] = "download"
    /\ dl[p].step = "rename"
    /\ tempFile' = [tempFile EXCEPT ![p] = NoFile]
    /\ Continue(p, dl[p])
    /\ UNCHANGED <<lastImport, reader, batches, sent, tsArg>>
    /\ UNCHANGED cacheFile
    /\ UNCHANGED <<schedVars, sigVars, histVars, dbVars, envVars, chanVars, statVars, wkVars>>

\* os.Open(cacheFile) after the rename: return file, nil
Open(p) ==
    /\ pc[p] = "download"
    /\ dl[p].step = "open"
    /\ cacheFile.exists
    /\ reader' = [reader EXCEPT ![p] = cacheFile.body]
    /\ pc' = [pc EXCEPT ![p] = "decode"]
    /\ dl' = [dl EXCEPT ![p].step = "done"]
    /\ UNCHANGED <<lastImport, retry, batches, sent, tsArg, result>>
    /\ UNCHANGED <<cacheFile, tempFile>>
    /\ UNCHANGED <<schedVars, sigVars, histVars, dbVars, envVars, chanVars, statVars, wkVars>>

\* os.Open(cacheFile) fails: continue
OpenFail(p) ==
    /\ pc[p] = "download"
    /\ dl[p].step = "open"
    /\ Continue(p, dl[p])
    /\ UNCHANGED <<lastImport, reader, batches, sent, tsArg>>
    /\ UNCHANGED <<cacheFile, tempFile>>
    /\ UNCHANGED <<schedVars, sigVars, histVars, dbVars, envVars, chanVars, statVars, wkVars>>

\* the process is killed while downloadBulkData runs: its files stay as
\* they are
Crash(p) ==
    /\ pc[p] = "download"
    /\ pc' = [pc EXCEPT ![p] = "crashed"]
    /\ result' = [result EXCEPT ![p] = "crash"]
    /\ UNCHANGED <<lastImport, retry, reader, batches, sent, tsArg>>
    /\ UNCHANGED <<fsVars, schedVars, sigVars, histVars, dbVars, envVars, chanVars, statVars, wkVars>>

\* the steps of downloadBulkData, its failures included
DownloadStep(p) ==
    \/ CacheCheck(p)
    \/ Request(p) \/ RequestFail(p)
    \/ CreateTemp(p) \/ CreateTempFail(p)
    \/ Copy(p) \/ CopyFail(p)
    \/ Rename(p) \/ RenameFail(p)
    \/ Open(p) \/ OpenFail(p)

\* the decode loop builds all batches; then the channels are made and the
\* workers, the wg.Wait goroutine and the stats goroutine are started
Decode(p) ==
    /\ pc[p] = "decode"
    /\ ~BuildBatches(reader[p], batchSize).err
    /\ batches' = [batches EXCEPT ![p] = BuildBatches(reader[p], batchSize).batches]
    /\ outcome' = [outcome EXCEPT ![p] = [b \in 1..Len(batches'[p]) |-> "none"]]
    /\ worker' = [worker EXCEPT ![p] = [w \in Workers |-> [IdleWorker EXCEPT !.pc = "range"]]]
    /\ statsPc' = [statsPc EXCEPT ![p] = "run"]
    /\ pc' = [pc EXCEPT ![p] = "dispatch"]
    /\ UNCHANGED <<lastImport, retry, reader, sent, tsArg, result>>
    /\ UNCHANGED <<totalInserted, totalUpdated>>
    /\ UNCHANGED <<fsVars, schedVars, sigVars, histVars, dbVars, envVars, chanVars>>

\* decoder.Token() or decoder.Decode(&card) fails: return the error
DecodeFail(p) ==
    /\ pc[p] = "decode"
    /\ BuildBatches(reader[p], batchSize).err
    /\ Return(p, "err")
    /\ UNCHANGED <<lastImport, retry, reader, batches, sent, tsArg>>
    /\ UNCHANGED <<fsVars, schedVars, sigVars, histVars, dbVars, envVars, chanVars, statVars, wkVars>>

\* dispatch loop, case batchChan <- batch
Dispatch(p) ==
    /\ pc[p] = "dispatch"
    /\ sent[p] < Len(batches[p])
    /\ Len(batchChan[p]) < chanCap
    /\ batchChan' = [batchChan EXCEPT ![p] = Append(@, sent[p] + 1)]
    /\ sent' = [sent EXCEPT ![p] = @ + 1]
    /\ UNCHANGED <<pc, lastImport, retry, reader, batches, tsArg, result>>
    /\ UNCHANGED <<chanClosed, errorChan, doneChan, statsChan>>
    /\ UNCHANGED <<fsVars, schedVars, sigVars, histVars, dbVars, envVars, statVars, wkVars>>

\* dispatch loop, case err := <-errorChan: return "worker error"
DispatchWorkerError(p) ==
    /\ pc[p] = "dispatch"
    /\ sent[p] < Len(batches[p])
    /\ errorChan[p] > 0
    /\ errorChan' = [errorChan EXCEPT ![p] = @ - 1]
    /\ Return(p, "err")
    /\ UNCHANGED <<lastImport, retry, reader, batches, sent, tsArg>>
    /\ UNCHANGED <<batchChan, chanClosed, doneChan, statsChan>>
    /\ UNCHANGED <<fsVars, schedVars, sigVars, histVars, dbVars, envVars, statVars, wkVars>>

\* close(batchChan) after the dispatch loop
CloseBatchChan(p) ==
    /\ pc[p] = "dispatch"
    /\ sent[p] = Len(batches[p])
    /\ chanClosed' = [chanClosed EXCEPT ![p] = TRUE]
    /\ pc' = [pc EXCEPT ![p] = "wait"]
    /\ UNCHANGED <<lastImport, retry, reader, batches, sent, tsArg, result>>
    /\ UNCHANGED <<batchChan, errorChan, doneChan, statsChan>>
    /\ UNCHANGED <<fsVars, schedVars, sigVars, histVars, dbVars, envVars, statVars, wkVars>>

\* the final select leaving without doneChan being closed
WaitDone_NoWait(p) ==
    /\ pc[p] = "wait"
    /\ pc' = [pc EXCEPT ![p] = "now"]
    /\ UNCHANGED <<lastImport, retry, reader, batches, sent, tsArg, result>>
    /\ UNCHANGED <<fsVars, schedVars, sigVars, histVars, dbVars, envVars, chanVars, statVars, wkVars>>

\* final select, case <-doneChan
WaitDone(p) ==
    /\ pc[p] = "wait"
    /\ doneChan[p]
    /\ pc' = [pc EXCEPT ![p] = "now"]
    /\ UNCHANGED <<lastImport, retry, reader, batches, sent, tsArg, result>>
    /\ UNCHANGED <<fsVars, schedVars, sigVars, histVars, dbVars, envVars, chanVars, statVars, wkVars>>

\* the final select's error case with the cursor written before the return
WaitWorkerError_WritesCursor(p) ==
    /\ pc[p] = "wait"
    /\ errorChan[p] > 0
    /\ errorChan' = [errorChan EXCEPT ![p] = @ - 1]
    /\ Return(p, "err")
    /\ last_import' = now
    /\ UNCHANGED <<cards, mtg_cards>>
    /\ UNCHANGED <<lastImport, retry, reader, batches, sent, tsArg>>
    /\ UNCHANGED <<batchChan, chanClosed, doneChan, statsChan>>
    /\ UNCHANGED <<fsVars, schedVars, sigVars, histVars, envVars, statVars, wkVars>>

\* final select, case err := <-errorChan: return "worker error"
WaitWorkerError(p) ==
    /\ pc[p] = "wait"
    /\ errorChan[p] > 0
    /\ errorChan' = [errorChan EXCEPT ![p] = @ - 1]
    /\ Return(p, "err")
    /\ UNCHANGED <<lastImport, retry, reader, batches, sent, tsArg>>
    /\ UNCHANGED <<batchChan, chanClosed, doneChan, statsChan>>
    /\ UNCHANGED <<fsVars, schedVars, sigVars, histVars, dbVars, envVars, statVars, wkVars>>

\* the argument of i.updateLastImportTimestamp(ctx, time.Now()) is evaluated
TimeNow(p) ==
    /\ pc[p] = "now"
    /\ tsArg' = [tsArg EXCEPT ![p] = now]
    /\ now' = now + 1
    /\ pc' = [pc EXCEPT ![p] = "write"]
    /\ UNCHANGED <<lastImport, retry, reader, batches, sent, result>>
    /\ UNCHANGED <<upstream, batchSize, faults, edits>>
    /\ UNCHANGED <<fsVars, schedVars, sigVars, histVars, dbVars, chanVars, statVars, wkVars>>

\* updateLastImportTimestamp: INSERT ... ON CONFLICT (id) DO UPDATE
\* SET last_import = $1; then the summary and return nil
UpdateLastImportTimestamp(p) ==
    /\ pc[p] = "write"
    /\ Len(batches[p]) > 0
    /\ last_import' = tsArg[p]
    /\ Return(p, "nil")
    /\ UNCHANGED <<cards, mtg_cards>>
    /\ UNCHANGED <<lastImport, retry, reader, batches, sent, tsArg>>
    /\ UNCHANGED <<fsVars, schedVars, sigVars, histVars, envVars, chanVars, statVars, wkVars>>

\* updateLastImportTimestamp, then the summary of a call that built no batch:
\* processDuration/time.Duration(len(batches)) divides by zero and the
\* goroutine panics, the cursor being written; the process stops
UpdateLastImportTimestampPanic(p) ==
    /\ pc[p] = "write"
    /\ Len(batches[p]) = 0
    /\ last_import' = tsArg[p]
    /\ pc' = [pc EXCEPT ![p] = "panicked"]
    /\ result' = [result EXCEPT ![p] = "panic"]
    /\ UNCHANGED <<cards, mtg_cards>>
    /\ UNCHANGED <<lastImport, retry, reader, batches, sent, tsArg>>
    /\ UNCHANGED <<fsVars, schedVars, sigVars, histVars, envVars, chanVars, statVars, wkVars>>

UpdateLastImportTimestampFail(p) ==
    /\ pc[p] = "write"
    /\ Fault
    /\ Return(p, "err")
    /\ UNCHANGED <<lastImport, retry, reader, batches, sent, tsArg>>
    /\ UNCHANGED <<fsVars, schedVars, sigVars, histVars, dbVars, chanVars, statVars, wkVars>>

(* --------------------------- worker goroutine -------------------------- *)
SetWorker(p, w, rec) == worker' = [worker EXCEPT ![p][w] = rec]
SetOutcome(p, b, o) == outcome' = [outcome EXCEPT ![p][b] = o]

\* for batch := range batchChan: a batch is received
Receive(p, w) ==
    /\ worker[p][w].pc = "range"
    /\ Len(batchChan[p]) > 0
    /\ SetWorker(p, w, [IdleWorker EXCEPT !.pc = "query", !.batch = Head(batchChan[p]),
                                           !.open = worker[p][w].open])
    /\ batchChan' = [batchChan EXCEPT ![p] = Tail(@)]
    /\ UNCHANGED <<chanClosed, errorChan, doneChan, statsChan>>
    /\ UNCHANGED <<fsVars, schedVars, sigVars, histVars, dbVars, envVars, prodVars, statVars, outcome>>

\* for batch := range batchChan: the channel is closed and drained; wg.Done()
WorkerExit(p, w) ==
    /\ worker[p][w].pc = "range"
    /\ Len(batchChan[p]) = 0
    /\ chanClosed[p]
    /\ SetWorker(p, w, [IdleWorker EXCEPT !.pc = "exited", !.open = worker[p][w].open])
    /\ UNCHANGED <<fsVars, schedVars, sigVars, histVars, dbVars, envVars, prodVars, chanVars, statVars, outcome>>

\* processBatch up to the first statement: the key map, the lookup query
\* over the committed tables (not issued when no card of the batch has a
\* key), the classification loop and database.Begin, which opens the
\* worker's transaction (open counts the transactions it has open)
Query(p, w) ==
    LET wk == worker[p][w]
        batch == batches[p][wk.batch]
    IN  /\ wk.pc = "query"
        /\ SetWorker(p, w, [wk EXCEPT
               !.pc = "tx",
               !.open = @ + 1,
               !.sets = Classify(batch, cards, mtg_cards, lastImport[p], now, runId[p], wk.batch)])
        /\ UNCHANGED <<fsVars, schedVars, sigVars, histVars, dbVars, envVars, prodVars, chanVars, statVars, outcome>>

\* the lookup query (or a row scan) fails: processBatch returns 0, 0, err
QueryFail(p, w) ==
    LET wk == worker[p][w]
        batch == batches[p][wk.batch]
    IN  /\ wk.pc = "query"
        /\ QueryKeys(batch) # {}
        /\ Fault
        /\ SetWorker(p, w, [wk EXCEPT !.pc = "report", !.err = TRUE, !.injected = TRUE])
        /\ SetOutcome(p, wk.batch, "failed")
        /\ UNCHANGED <<fsVars, schedVars, sigVars, histVars, dbVars, prodVars, chanVars, statVars>>

\* database.Begin fails after the classification: processBatch returns the
\* lengths of the create and update sets and err
BeginFail(p, w) ==
    LET wk == worker[p][w]
        batch == batches[p][wk.batch]
        sets == Classify(batch, cards, mtg_cards, lastImport[p], now, runId[p], wk.batch)
    IN  /\ wk.pc = "query"
        /\ Fault
        /\ SetWorker(p, w, [wk EXCEPT !.pc = "report", !.err = TRUE,
                                      !.injected = TRUE,
                                      !.sets = sets,
                                      !.inserted = Len(sets.cardsToCreate),
                                      !.updated = Len(sets.cardsToUpdate)])
        /\ SetOutcome(p, wk.batch, "failed")
        /\ UNCHANGED <<fsVars, schedVars, sigVars, histVars, dbVars, prodVars, chanVars, statVars>>

\* the transaction of processBatch from the first statement to Commit or
\* Rollback, with a storage error at statement failAt (0: none)
RunTransaction(p, w, failAt) ==
    LET wk == worker[p][w]
        res == WithTransaction([cards |-> cards, mtg |-> mtg_cards],
                               Statements(wk.sets), failAt)
    IN  /\ wk.pc = "tx"
        /\ cards' = res.cat.cards
        /\ mtg_cards' = res.cat.mtg
        /\ SetWorker(p, w, [wk EXCEPT !.pc = "report", !.err = res.err,
                                      !.failedAt = res.at,
                                      !.open = IF res.open THEN @ ELSE @ - 1,
                                      !.injected = (res.err /\ res.at = failAt),
                                      !.inserted = Len(wk.sets.cardsToCreate),
                                      !.updated = Len(wk.sets.cardsToUpdate)])
        /\ SetOutcome(p, wk.batch, IF res.err THEN "failed" ELSE "committed")
        /\ UNCHANGED <<fsVars, schedVars, sigVars, histVars, last_import, prodVars, chanVars, statVars>>

Transaction(p, w) ==
    /\ RunTransaction(p, w, 0)
    /\ UNCHANGED envVars

TransactionFault(p, w) ==
    /\ \E failAt \in 1..(Len(Statements(worker[p][w].sets)) + 1) :
          RunTransaction(p, w, failAt)
    /\ Fault

\* the worker loop with a blocking send on errorChan
Report_BlockingSend(p, w) ==
    LET wk == worker[p][w]
    IN  /\ wk.pc = "report"
        /\ wk.err => errorChan[p] < errorChanSize
        /\ errorChan' = [errorChan EXCEPT ![p] = IF wk.err THEN @ + 1 ELSE @]
        /\ statsChan' = [statsChan EXCEPT ![p] =
              IF Len(@) < chanCap
              THEN Append(@, [inserted |-> wk.inserted, updated |-> wk.updated])
              ELSE @]
        /\ SetWorker(p, w, [IdleWorker EXCEPT !.pc = "range", !.open = wk.open])
        /\ UNCHANGED <<batchChan, chanClosed, doneChan>>
        /\ UNCHANGED <<fsVars, schedVars, sigVars, histVars, dbVars, envVars, prodVars, statVars, outcome>>

\* after processBatch: the non-blocking sends of the worker loop on errorChan
\* and statsChan (progressChan feeds only the progress log and is left out)
Report(p, w) ==
    LET wk == worker[p][w]
    IN  /\ wk.pc = "report"
        /\ errorChan' = [errorChan EXCEPT ![p] =
              IF wk.err /\ @ < errorChanSize THEN @ + 1 ELSE @]
        /\ statsChan' = [statsChan EXCEPT ![p] =
              IF Len(@) < chanCap
              THEN Append(@, [inserted |-> wk.inserted, updated |-> wk.updated])
              ELSE @]
        /\ SetWorker(p, w, [IdleWorker EXCEPT !.pc = "range", !.open = wk.open])
        /\ UNCHANGED <<batchChan, chanClosed, doneChan>>
        /\ UNCHANGED <<fsVars, schedVars, sigVars, histVars, dbVars, envVars, prodVars, statVars, outcome>>

(* ---------------------- wg.Wait and stats goroutines ------------------- *)
\* wg.Wait() returns once every worker has called wg.Done(); close(doneChan)
CloseDone(p) ==
    /\ ~doneChan[p]
    /\ \A w \in Workers : worker[p][w].pc = "exited"
    /\ doneChan' = [doneChan EXCEPT ![p] = TRUE]
    /\ UNCHANGED <<batchChan, chanClosed, errorChan, statsChan>>
    /\ UNCHANGED <<fsVars, schedVars, sigVars, histVars, dbVars, envVars, prodVars, statVars, wkVars>>

\* stats goroutine, case stats := <-statsChan
StatsCollect(p) ==
    /\ statsPc[p] = "run"
    /\ Len(statsChan[p]) > 0
    /\ statsChan' = [statsChan EXCEPT ![p] = Tail(@)]
    /\ totalInserted' = [totalInserted EXCEPT ![p] = @ + Head(statsChan[p]).inserted]
    /\ totalUpdated' = [totalUpdated EXCEPT ![p] = @ + Head(statsChan[p]).updated]
    /\ UNCHANGED statsPc
    /\ UNCHANGED <<batchChan, chanClosed, errorChan, doneChan>>
    /\ UNCHANGED <<fsVars, schedVars, sigVars, histVars, dbVars, envVars, prodVars, wkVars>>

\* stats goroutine, case <-doneChan: return
StatsExit(p) ==
    /\ statsPc[p] = "run"
    /\ doneChan[p]
    /\ statsPc' = [statsPc EXCEPT ![p] = "exited"]
    /\ UNCHANGED <<totalInserted, totalUpdated>>
    /\ UNCHANGED <<fsVars, schedVars, sigVars, histVars, dbVars, envVars, prodVars, chanVars, wkVars>>

(* ---------------------------- specification ---------------------------- *)
\* the steps of a call of ImportBulkData after downloadBulkData has
\* returned, and of its goroutines, in which nothing fails
AfterDownload(p) ==
    \/ Decode(p)
    \/ Dispatch(p) \/ CloseBatchChan(p)
    \/ WaitDone(p)
    \/ TimeNow(p)
    \/ UpdateLastImportTimestamp(p)
    \/ CloseDone(p)
    \/ StatsCollect(p) \/ StatsExit(p)
    \/ \E w \in Workers :
          \/ Receive(p, w) \/ WorkerExit(p, w)
          \/ Query(p, w)
          \/ Transaction(p, w)
          \/ Report(p, w)

\* the steps of a call of ImportBulkData and of its goroutines in which
\* nothing fails
OkStep(p) ==
    \/ FetchBulkDataInfo(p)
    \/ GetLastImportTimestamp(p)
    \/ DownloadBulkData(p)
    \/ AfterDownload(p)

\* the producer takes a worker's error from errorChan
ErrStep(p) == DispatchWorkerError(p) \/ WaitWorkerError(p)

RunStep(p) == OkStep(p) \/ ErrStep(p)

\* the steps in which a network, stream or storage operation fails
FaultStep(p) ==
    \/ FetchBulkDataInfoFail(p)
    \/ GetLastImportTimestampFail(p)
    \/ DownloadAttemptFail(p)
    \/ DownloadMalformed(p) \/ DecodeFail(p)
    \/ UpdateLastImportTimestampFail(p)
    \/ \E w \in Workers :
          \/ QueryFail(p, w)
          \/ BeginFail(p, w)
          \/ TransactionFault(p, w)

\* the server alone: the scheduler's calls, one after the other
Next ==
    \/ ImportCards
    \/ RunStep("sched")
    \/ FaultStep("sched")
    \/ UpstreamEdit

Spec == Init /\ [][Next]_vars

(* ----------------- the server and the import command ------------------- *)
\* a dataset of one card
OneCard == << MTGAPICard("neo", "1", "A", "X", NoTime) >>

InitCLI ==
    /\ InitState
    /\ upstream = OneCard
    /\ batchSize = 1
    /\ faults = 0
    /\ runs = 0
    /\ src = NoSrc
    /\ hash = NoSrc

\* the scheduler's calls and one run of cmd/import against the same database,
\* at any time; no I/O fails
NextCLI ==
    \/ ImportCards
    \/ \E clearStatus \in BOOLEAN : CLIImport(clearStatus)
    \/ \E p \in Procs : OkStep(p) \/ WaitWorkerError(p)

SpecCLI == InitCLI /\ [][NextCLI]_vars

(* ------------------- extension rows deleted independently -------------- *)
\* MTGCardStore.Delete: DELETE FROM mtg_cards WHERE id = $1, called by the
\* application at any time
DeleteMtgCard ==
    /\ \E m \in mtg_cards : mtg_cards' = mtg_cards \ {m}
    /\ UNCHANGED <<cards, last_import>>
    /\ UNCHANGED <<envVars, histVars, prodVars, chanVars, statVars, wkVars, schedVars, sigVars, fsVars>>

\* datasets of one key, once or twice
HealData ==
    { OneCard, OneCard \o OneCard }

InitHeal ==
    /\ InitState
    /\ upstream \in HealData
    /\ batchSize \in 1..MaxBatchSize
    /\ faults = 0
    /\ runs = 0
    /\ src = NoSrc
    /\ hash = NoSrc

\* the scheduler's calls while extension rows are deleted; no I/O fails
NextHeal ==
    \/ ImportCards
    \/ OkStep("sched")
    \/ WaitWorkerError("sched")
    \/ DeleteMtgCard

SpecHeal == InitHeal /\ [][NextHeal]_vars

(* --------------------------- a large dataset --------------------------- *)
\* more batches than batchChan and the workers hold together
BulkRecords == chanCap + numWorkers + 1

BulkData ==
    [i \in 1..BulkRecords |-> MTGAPICard("neo", ToString(i), "A", "X", NoTime)]

InitBulk ==
    /\ InitState
    /\ upstream = BulkData
    /\ batchSize = 1
    /\ faults = 0
    /\ runs = MaxRuns - 1
    /\ src = NoSrc
    /\ hash = NoSrc

\* one call of the scheduler in which nothing fails
NextBulk == ImportCards \/ OkStep("sched")

SpecBulk == InitBulk /\ [][NextBulk]_vars


(* ------------------- more failed batches than errorChan holds ---------- *)
\* batches that all fail: the two cards of a batch carry the same natural
\* key, so the second INSERT INTO cards violates idx_cards_unique
ErrBatches == errorChanSize + 2

ErrData ==
    [i \in 1..(2 * ErrBatches) |-> MTGAPICard("neo", "1", "A", "X", NoTime)]

InitErr ==
    /\ InitState
    /\ upstream = ErrData
    /\ batchSize = 2
    /\ faults = 0
    /\ runs = MaxRuns - 1
    /\ src = NoSrc
    /\ hash = NoSrc

\* one call of the scheduler; the only failures are those of the batches
NextErr == ImportCards \/ OkStep("sched") \/ ErrStep("sched")

SpecErr == InitErr /\ [][NextErr]_vars


(* --------------------------- batching alone ---------------------------- *)
\* datasets of up to two full batches and a partial one at the largest
\* batch size tried, with distinguishable records
BatchRecords == 2 * (MaxBatchSize + 1) + 1

BatchData ==
    { [i \in 1..n |-> MTGAPICard("neo", ToString(i), "A", "X", NoTime)] :
          n \in 0..BatchRecords }

InitBatch ==
    /\ InitState
    /\ upstream \in BatchData
    /\ batchSize \in 1..(MaxBatchSize + 1)
    /\ faults = 0
    /\ runs = MaxRuns - 1
    /\ src = NoSrc
    /\ hash = NoSrc

\* one call of the scheduler up to the end of the decode loop
NextBatch ==
    \/ ImportCards
    \/ FetchBulkDataInfo("sched")
    \/ GetLastImportTimestamp("sched")
    \/ DownloadBulkData("sched")
    \/ Decode("sched")

SpecBatch == InitBatch /\ [][NextBatch]_vars

(* ----------------------- streams that end early ------------------------ *)
StreamData ==
    { [i \in 1..n |-> MTGAPICard("neo", ToString(i), "A", "X", NoTime)] :
          n \in 1..MaxRecords }

InitStream ==
    /\ InitState
    /\ upstream \in StreamData
    /\ batchSize \in 1..MaxBatchSize
    /\ faults = 0
    /\ runs = MaxRuns - 1
    /\ src = NoSrc
    /\ hash = NoSrc

\* one call of the scheduler on a complete or on a truncated body; nothing
\* else fails
NextStream ==
    \/ ImportCards
    \/ OkStep("sched")
    \/ DownloadTruncated("sched")
    \/ DecodeFail("sched")
    \/ UpdateLastImportTimestampPanic("sched")

SpecStream == InitStream /\ [][NextStream]_vars


(* ------------------------ the download and its cache ------------------- *)
InitCache ==
    /\ InitState
    /\ upstream \in StreamData
    /\ batchSize = MaxBatchSize
    /\ faults = 0
    /\ runs = 0
    /\ src = NoSrc
    /\ hash = NoSrc

\* the scheduler's calls with downloadBulkData step by step: the cache file
\* of any age, every failure of an attempt, the process killed during the
\* download; nothing else fails
NextCache ==
    \/ ImportCards
    \/ FetchBulkDataInfo("sched")
    \/ GetLastImportTimestamp("sched")
    \/ DownloadStep("sched")
    \/ Crash("sched")
    \/ AfterDownload("sched")
    \/ UpstreamEdit

SpecCache == InitCache /\ [][NextCache]_vars


(* ------------------------- records with bad dates ---------------------- *)
\* cards whose updated_at and released_at are valid, or empty or unparsable
DateRecords ==
    { [MTGAPICard("neo", num, "A", "X", ts) EXCEPT !.released_at = rel] :
         num \in {"1", "2"}, ts \in {NoTime, 1}, rel \in {NoTime, 1} }

DateData == [1..2 -> DateRecords]

InitDates ==
    /\ InitState
    /\ upstream \in DateData
    /\ batchSize = 2
    /\ faults = 0
    /\ runs = 0
    /\ src = NoSrc
    /\ hash = NoSrc

\* the scheduler's calls on such a dataset, nothing failing in the storage
NextDates == ImportCards \/ OkStep("sched")

SpecDates == InitDates /\ [][NextDates]_vars

(* --------------------- a call under fair scheduling -------------------- *)
\* datasets of more batches than batchChan and the workers hold, of batches
\* that all fail, and of no card at all
LiveData == {BulkData, ErrData, <<>>}

InitLive ==
    /\ InitState
    /\ upstream \in LiveData
    /\ batchSize \in 1..MaxBatchSize
    /\ faults = 0
    /\ runs = MaxRuns - 1
    /\ src = NoSrc
    /\ hash = NoSrc

\* the steps of the call and of its goroutines
LiveStep ==
    \/ OkStep("sched")
    \/ ErrStep("sched")
    \/ UpdateLastImportTimestampPanic("sched")

NextLive == ImportCards \/ LiveStep

\* the Go scheduler runs a goroutine that can take a step, and the download
\* and every processBatch terminate: a call that can take a step takes one
SpecLive == InitLive /\ [][NextLive]_vars /\ WF_vars(LiveStep)

(* ------------------ changes made while a call is in flight ------------- *)
\* datasets of cards with distinct keys that carry a provider timestamp
DriftData ==
    { [i \in 1..n |-> MTGAPICard("neo", ToString(i), "A", "X", 1)] : n \in 1..MaxRecords }

InitDrift ==
    /\ InitState
    /\ upstream \in DriftData
    /\ batchSize \in 1..MaxBatchSize
    /\ faults = 0
    /\ runs = 0
    /\ src = NoSrc
    /\ hash = NoSrc

\* the scheduler's calls, nothing failing, each download fresh, the provider
\* changing cards during the calls
NextDrift == ImportCards \/ OkStep("sched") \/ UpstreamEditInFlight

SpecDrift == InitDrift /\ [][NextDrift]_vars

(* ------------------------ duplicate natural keys ----------------------- *)
\* datasets in which a key occurs twice: in one batch, or in two batches,
\* each with another card
DupData ==
    { << MTGAPICard("neo", "1", "A", "X", NoTime), MTGAPICard("neo", "1", "A", "X", NoTime) >>,
      << MTGAPICard("neo", "1", "A", "X", NoTime), MTGAPICard("neo", "2", "A", "X", NoTime),
         MTGAPICard("neo", "1", "A", "X", NoTime), MTGAPICard("neo", "3", "A", "X", NoTime) >> }

InitDup ==
    /\ InitState
    /\ upstream \in DupData
    /\ batchSize = 2
    /\ faults = 0
    /\ runs = MaxRuns - 1
    /\ src = NoSrc
    /\ hash = NoSrc

\* one call of the scheduler on an empty catalog; the only failures are
\* those of the batches, which are all queued before any has been processed
NextDup == ImportCards \/ OkStep("sched") \/ WaitWorkerError("sched")

SpecDup == InitDup /\ [][NextDup]_vars

(* ----------------------- PokemonImporter ------------------------------- *)
\* everything but pk and sch
mtgVars == <<dbVars, envVars, histVars, prodVars, chanVars, statVars, wkVars, sigVars, fsVars>>

PkReturn(res) == pk' = [pk EXCEPT !.pc = "returned", !.result = res]

\* Import, and with it ImportLatestSets, is called while the API holds the
\* sets and pages d: its locals are fresh
PkBegin(d) ==
    pk' = [NoPokemon EXCEPT !.pc = "sets", !.pages = d]

\* fetchSets succeeds; the loop over the sets starts with ImportSet of the
\* first one (page := 1), or ends at once when there is none
FetchSets ==
    /\ pk.pc = "sets"
    /\ IF Len(pk.pages) = 0
       THEN PkReturn("nil")
       ELSE pk' = [pk EXCEPT !.pc = "fetch", !.set = 1, !.page = 1, !.retry = 0,
                             !.got = "none", !.data = 0]

\* fetchSets fails: ImportLatestSets returns the error
FetchSetsFail ==
    /\ pk.pc = "sets"
    /\ PkReturn("err")

\* the retry loop of ImportSet once it has ended: the function goes on to
\* `if err != nil` with the outer err, which the loop never assigns (its
\* `req, err :=` and `resp, err :=` declare an err of the loop body)
AfterRetryLoop(got, data) ==
    [pk EXCEPT !.pc = "check", !.got = got, !.data = data]

\* an attempt of the retry loop gets status 200 and decodes the page: break
PageRequest ==
    /\ pk.pc = "fetch"
    /\ pk.retry < maxRetries
    /\ pk' = AfterRetryLoop("ok", IF pk.page <= pk.pages[pk.set] THEN 1 ELSE 0)

\* an attempt fails (transport error, status, decode): continue; after
\* maxRetries attempts the loop ends. response is empty, or holds the cards
\* a Decode that failed on a later value had already filled in
PageRequestFail ==
    /\ pk.pc = "fetch"
    /\ pk.retry < maxRetries
    /\ IF pk.retry + 1 >= maxRetries
       THEN \E d \in {0} \cup (IF pk.page <= pk.pages[pk.set] THEN {1} ELSE {}) :
               pk' = [AfterRetryLoop("failed", d) EXCEPT !.retry = pk.retry + 1]
       ELSE pk' = [pk EXCEPT !.retry = @ + 1]

\* after the retry loop: `if err != nil` returns the error; an empty
\* response.Data ends the set (break), and ImportLatestSets goes on to the
\* next set or returns nil; otherwise the cards of the page are stored
CheckPage ==
    /\ pk.pc = "check"
    /\ IF pk.err # "nil" THEN PkReturn("err")
       ELSE IF pk.data = 0
       THEN IF pk.set < Len(pk.pages)
            THEN pk' = [pk EXCEPT !.pc = "fetch", !.set = @ + 1, !.page = 1,
                                  !.retry = 0, !.got = "none", !.data = 0]
            ELSE PkReturn("nil")
       ELSE pk' = [pk EXCEPT !.pc = "store"]

\* the cards of the page are created or updated; page++
StorePage ==
    /\ pk.pc = "store"
    /\ pk' = [pk EXCEPT !.pc = "fetch", !.page = @ + 1, !.retry = 0,
                        !.got = "none", !.data = 0, !.stored = @ + 1]

\* a store operation on a card of the page fails: ImportSet returns the error
StorePageFail ==
    /\ pk.pc = "store"
    /\ PkReturn("err")

\* the steps of a call of ImportLatestSets
PkStep ==
    /\ \/ FetchSets \/ FetchSetsFail
       \/ PageRequest \/ PageRequestFail
       \/ CheckPage
       \/ StorePage \/ StorePageFail
    /\ UNCHANGED <<mtgVars, sch>>

\* the sets and pages the Pokemon API may hold
PokemonData == UNION { [1..n -> 0..MaxPages] : n \in 0..MaxSets }

InitPokemon ==
    /\ InitState
    /\ upstream = OneCard
    /\ batchSize = 1
    /\ faults = 0
    /\ runs = 0
    /\ src = NoSrc
    /\ hash = NoSrc

\* one call of PokemonImporter.Import on any data of the API
ImportPokemon ==
    /\ pk.pc = "idle"
    /\ \E d \in PokemonData : PkBegin(d)
    /\ UNCHANGED <<mtgVars, sch>>

NextPokemon == ImportPokemon \/ PkStep

SpecPokemon == InitPokemon /\ [][NextPokemon]_vars


(* ----------------------------- Scheduler ------------------------------- *)
\* the importers in the order the server registers them
Importers == <<"pokemon", "lorcana", "starwars", "mtg">>

\* Start: the goroutine of runCardImports is created
Start ==
    /\ sch.pc = "new"
    /\ sch' = [sch EXCEPT !.pc = "started"]
    /\ UNCHANGED <<mtgVars, pk>>

\* importCards is entered: the loop over the importers starts at the first
BeginPass(s) ==
    [s EXCEPT !.pc = "pass", !.idx = 1, !.running = FALSE, !.passes = @ + 1,
              !.log = <<>>, !.results = <<>>]

RunCardImports_TickFirst ==
    /\ sch.pc = "started"
    /\ sch' = [sch EXCEPT !.pc = "select"]
    /\ UNCHANGED <<mtgVars, pk>>

\* runCardImports begins: the ticker is created and importCards is called
\* at once
RunCardImports ==
    /\ sch.pc = "started"
    /\ sch' = BeginPass(sch)
    /\ UNCHANGED <<mtgVars, pk>>

\* the ticker's period has passed: a tick is put in ticker.C, which holds
\* one (a tick that finds it full is dropped); the fires are bounded with
\* the calls
TimerFire ==
    /\ sch.pc \in {"pass", "select"}
    /\ sch.fired < MaxRuns - 1
    /\ sch' = [sch EXCEPT !.tick = 1, !.fired = @ + 1]
    /\ UNCHANGED <<mtgVars, pk>>

Stop_CancelsContext ==
    /\ sch.pc # "new"
    /\ ~sch.stop
    /\ sch' = [sch EXCEPT !.stop = TRUE,
                          !.stopAt = [pc |-> sch.pc, idx |-> sch.idx,
                                      running |-> sch.running, run |-> pc["sched"]]]
    /\ IF sch.running /\ Importers[sch.idx] = "mtg" /\ pc["sched"] # "returned"
       THEN /\ Return("sched", "err")
            /\ UNCHANGED <<dbVars, envVars, histVars, chanVars, statVars, wkVars,
                           sigVars, fsVars, pk>>
            /\ UNCHANGED <<lastImport, retry, reader, batches, sent, tsArg>>
       ELSE UNCHANGED <<mtgVars, pk>>

\* Stop: close(s.stop) and nothing else; where the loop and the MTG call
\* were at that moment is remembered
Stop ==
    /\ sch.pc # "new"
    /\ ~sch.stop
    /\ sch' = [sch EXCEPT !.stop = TRUE,
                          !.stopAt = [pc |-> sch.pc, idx |-> sch.idx,
                                      running |-> sch.running, run |-> pc["sched"]]]
    /\ UNCHANGED <<mtgVars, pk>>

\* importCards calls Import of the next importer with context.Background()
CallImporter ==
    /\ sch.pc = "pass"
    /\ ~sch.running
    /\ sch.idx <= Len(Importers)
    /\ sch' = [sch EXCEPT !.running = TRUE, !.log = Append(@, Importers[sch.idx])]
    /\ CASE Importers[sch.idx] = "pokemon" ->
              /\ \E d \in PokemonData : PkBegin(d)
              /\ UNCHANGED mtgVars
         [] Importers[sch.idx] = "mtg" ->
              /\ Quiescent("sched")
              /\ BeginCall("sched")
              /\ prev' = [result |-> result["sched"], data |-> reader["sched"]]
              /\ UNCHANGED <<dbVars, envVars, sigVars, cacheFile, tempFile, pk>>
         [] OTHER -> UNCHANGED <<mtgVars, pk>>

\* the importer's Import has returned res (the locals of the Pokemon call
\* end with it)
Returned(res) ==
    CASE Importers[sch.idx] = "pokemon" -> pk.pc = "returned" /\ pk.result = res
      [] Importers[sch.idx] = "mtg" -> pc["sched"] = "returned" /\ result["sched"] = res
      [] OTHER -> res = "nil"

AfterImport_ReturnOnError(s, res) ==
    [s EXCEPT !.running = FALSE, !.results = Append(@, res), !.idx = @ + 1,
              !.pc = IF s.idx = Len(Importers) \/ res # "nil" THEN "select" ELSE "pass"]

\* importCards after Import returned: an error is logged and the loop
\* continues, as it does after a success; after the last importer
\* importCards returns and runCardImports is at its select
AfterImport(s, res) ==
    [s EXCEPT !.running = FALSE, !.results = Append(@, res), !.idx = @ + 1,
              !.pc = IF s.idx = Len(Importers) THEN "select" ELSE "pass"]

ImporterReturns ==
    /\ sch.pc = "pass"
    /\ sch.running
    /\ \E res \in {"nil", "err"} :
          /\ Returned(res)
          /\ sch' = AfterImport(sch, res)
    /\ pk' = NoPokemon
    /\ UNCHANGED mtgVars

\* the select receives the tick: importCards is called
SelectTick ==
    /\ sch.pc = "select"
    /\ sch.tick = 1
    /\ sch' = BeginPass([sch EXCEPT !.tick = 0, !.ticks = @ + 1])
    /\ UNCHANGED <<mtgVars, pk>>

\* the select finds s.stop closed: runCardImports returns and the ticker is
\* stopped. With a tick in ticker.C as well, the select takes either case
SelectStop ==
    /\ sch.pc = "select"
    /\ sch.stop
    /\ sch' = [sch EXCEPT !.pc = "exited"]
    /\ UNCHANGED <<mtgVars, pk>>

\* the server's scheduler with its importers; a call of the bulk data
\* information of the MTG importer may fail
InitSched ==
    /\ InitState
    /\ upstream = OneCard
    /\ batchSize = 1
    /\ faults = 0
    /\ runs = 0
    /\ src = NoSrc
    /\ hash = NoSrc

NextSched ==
    \/ Start \/ RunCardImports
    \/ TimerFire \/ Stop
    \/ CallImporter \/ ImporterReturns
    \/ SelectTick \/ SelectStop
    \/ PkStep
    \/ OkStep("sched")
    \/ FetchBulkDataInfoFail("sched")

SpecSched == InitSched /\ [][NextSched]_vars

(* ------------------------- signatures and hashes ----------------------- *)
\* two encodings are logically equal: the same scalar fields, the same set
\* of colors, of keywords and of legality members
LogicallyEqual(e1, e2) ==
    /\ e1.name = e2.name
    /\ e1.mana_cost = e2.mana_cost
    /\ Range(e1.colors) = Range(e2.colors)
    /\ Range(e1.keywords) = Range(e2.keywords)
    /\ Range(e1.legalities) = Range(e2.legalities)

InitSig ==
    /\ InitState
    /\ upstream = OneCard
    /\ batchSize = 1
    /\ faults = 0
    /\ runs = 0
    /\ src \in { s \in [1..2 -> Encodings] : s[1] = s[2] }
    /\ hash = [k \in 1..2 |-> NoHash]

\* the provider writes the second card's arrays and object members in another
\* order
Reorder ==
    /\ \E e \in Encodings :
          /\ LogicallyEqual(e, src[1])
          /\ e # src[2]
          /\ src' = [src EXCEPT ![2] = e]
    /\ hash' = [hash EXCEPT ![2] = NoHash]
    /\ UNCHANGED <<dbVars, envVars, histVars, prodVars, chanVars, statVars, wkVars, fsVars, schedVars>>

\* newSignature.Hash() for the card decoded from encoding k
HashSignature(k) ==
    /\ hash[k] = NoHash
    /\ hash' = [hash EXCEPT ![k] = Hash(NewSignature(DecodeCard(src[k])))]
    /\ UNCHANGED src
    /\ UNCHANGED <<dbVars, envVars, histVars, prodVars, chanVars, statVars, wkVars, fsVars, schedVars>>

NextSig == Reorder \/ \E k \in 1..2 : HashSignature(k)

SpecSig == InitSig /\ [][NextSig]_vars

(* ------------------------------ properties ----------------------------- *)
\* the batches of the current call of p
Batches(p) == DOMAIN outcome[p]

\* C1: batch atomicity. The step in which processBatch fails leaves both
\* tables as they were, so no write of the failed batch is visible and every
\* row committed by an earlier batch is unchanged; and every row last written
\* in the current call was written by a batch whose transaction committed.
C1_BatchAtomicity ==
    [][ /\ \A p \in Procs : \A b \in Batches(p) \cap DOMAIN outcome'[p] :
              (outcome[p][b] = "none" /\ outcome'[p][b] = "failed")
                  => (cards' = cards /\ mtg_cards' = mtg_cards)
        /\ \A p \in Procs : \A row \in cards' \cup mtg_cards' :
              row.by[1] = runId'[p] => outcome'[p][row.by[2]] = "committed"
      ]_vars

\* C1 witness: a transaction failed at its second or a later statement, after
\* a batch had committed rows
C1_Witness ==
    \E p \in Procs, w \in Workers :
        /\ worker[p][w].pc = "report"
        /\ worker[p][w].err
        /\ worker[p][w].failedAt >= 2
        /\ cards # {}

C3_FailureDoesNotStopDispatch ==
    \A p \in Procs : pc[p] = "returned" => sent[p] = Len(batches[p])

\* the step in which worker w of p runs the lookup and the classification loop
Classified(p, w) == worker[p][w].pc = "query" /\ worker'[p][w].pc = "tx"

\* a row of the sequence rows was prepared for card i of batch b of call r
PreparedFor(rows, r, b, i) == \E k \in 1..Len(rows) : rows[k].by = <<r, b, i>>

\* the extension rows of a base row
ExtRows(base) == { m \in mtg_cards : m.card_id = base.id }

\* C4 (as claimed): change detection is complete. When a batch is classified,
\* every valid card of it that the cursor does not skip, whose key has a base
\* row with an extension row, and of which a signature field (the name, or a
\* game-specific field: mana cost, colors) differs from the stored value, is
\* placed in the update set.
C4_ChangeDetectionComplete ==
    [][ \A p \in Procs, w \in Workers :
          Classified(p, w) =>
            LET b == worker[p][w].batch
                batch == batches[p][b]
            IN  \A i \in 1..Len(batch) :
                  LET card == batch[i]
                      ex == CardMap(cards, CardKey(card))
                  IN  ( /\ ~MissingKey(card)
                        /\ ~CursorSkips(card, lastImport[p], now)
                        /\ ~IsNil(ex)
                        /\ ExtRows(ex) # {}
                        /\ \/ ex.name # card.name
                           \/ \E m \in ExtRows(ex) :
                                 m.mana_cost # card.mana_cost \/ m.colors # card.colors )
                      => PreparedFor(worker'[p][w].sets.cardsToUpdate, runId[p], b, i)
      ]_vars

\* card i of batch b of p equals what the catalog stores for its key
StoredEqual(p, b, i) ==
    LET card == batches[p][b][i]
        ex == CardMap(cards, CardKey(card))
    IN  /\ ~MissingKey(card)
        /\ ~IsNil(ex)
        /\ ExtRows(ex) # {}
        /\ ex.name = card.name
        /\ \A m \in ExtRows(ex) :
              m.mana_cost = card.mana_cost /\ m.colors = card.colors

\* C5: change detection is sound. When a batch is classified, a valid card
\* whose key has a base row and an extension row and whose signature fields
\* all equal the stored values is in none of the create and update sets, so
\* the transaction has no statement for it.
C5_ChangeDetectionSound ==
    [][ \A p \in Procs, w \in Workers :
          Classified(p, w) =>
            LET b == worker[p][w].batch
                sets == worker'[p][w].sets
            IN  \A i \in 1..Len(batches[p][b]) :
                  StoredEqual(p, b, i) =>
                    /\ ~PreparedFor(sets.cardsToCreate, runId[p], b, i)
                    /\ ~PreparedFor(sets.mtgCardsToCreate, runId[p], b, i)
                    /\ ~PreparedFor(sets.cardsToUpdate, runId[p], b, i)
                    /\ ~PreparedFor(sets.mtgCardsToUpdate, runId[p], b, i)
      ]_vars

\* C5 witness: a batch was classified with empty sets although a card of it
\* that the cursor does not skip has an equal stored row
C5_Witness ==
    \E p \in Procs, w \in Workers :
        /\ worker[p][w].pc = "tx"
        /\ worker[p][w].sets = EmptySets
        /\ \E i \in 1..Len(batches[p][worker[p][w].batch]) :
              /\ StoredEqual(p, worker[p][w].batch, i)
              /\ ~CursorSkips(batches[p][worker[p][w].batch][i], lastImport[p], now)

\* C6 (as claimed): idempotence. When the previous call returned nil and the
\* dataset is the one that call read, every batch is classified with an empty
\* create set and an empty update set.
C6_Idempotence ==
    [][ \A w \in Workers :
          ( /\ Classified("sched", w)
            /\ prev.result = "nil"
            /\ prev.data = reader["sched"] )
          => /\ worker'["sched"][w].sets.cardsToCreate = <<>>
             /\ worker'["sched"][w].sets.cardsToUpdate = <<>>
      ]_vars

\* C7: natural-key uniqueness. No two rows of cards share (set_code, number)
\* (the game is 'mtg' for all of them).
C7_NaturalKeyUnique ==
    \A c1 \in cards, c2 \in cards : RowKey(c1) = RowKey(c2) => c1 = c2

\* C7 witness: a transaction failed at a statement no storage error was
\* injected at, that is at an insert refused by the unique index, while a row
\* with that key is stored
C7_Witness ==
    \E p \in Procs, w \in Workers :
        /\ worker[p][w].pc = "report"
        /\ worker[p][w].err
        /\ ~worker[p][w].injected
        /\ worker[p][w].failedAt >= 1
        /\ \E k \in 1..Len(worker[p][w].sets.cardsToCreate) :
              \E c \in cards : RowKey(c) = RowKey(worker[p][w].sets.cardsToCreate[k])

\* C8 (as claimed): cursor monotonicity. Every write of the cursor stores a
\* value greater than or equal to the one it replaces, also when the calls
\* of the scheduler and of the import command overlap; the reset by
\* -clear-status, made when the import command starts, is excepted.
C8_CursorMonotonic ==
    [][ \/ last_import' >= last_import
        \/ (pc["cli"] = "idle" /\ pc'["cli"] # "idle")
      ]_vars

\* C9 (as claimed): backpressure. The batches built and not yet finished by a
\* worker are never more than the queue depth plus the number of workers.
C9_Backpressure ==
    \A p \in Procs :
        Cardinality({ b \in Batches(p) : outcome[p][b] = "none" }) <= chanCap + numWorkers

\* C10 (as claimed): signature stability. The hashes of the signatures of two
\* logically equal cards, whose arrays and object members are written in
\* different orders, are equal.
C10_SignatureStable ==
    ( /\ hash # NoSrc
      /\ hash[1] # NoHash
      /\ hash[2] # NoHash
      /\ LogicallyEqual(src[1], src[2]) )
    => hash[1] = hash[2]

\* the step in which the transaction of worker w of p commits
Committed(p, w) ==
    /\ worker[p][w].pc = "tx"
    /\ worker'[p][w].pc = "report"
    /\ ~worker'[p][w].err

\* the number of rows of the sequence rows prepared for card i of batch b
CountFor(rows, r, b, i) ==
    Cardinality({ k \in 1..Len(rows) : rows[k].by = <<r, b, i>> })

\* C11: create path. A valid card that the cursor does not skip and whose key
\* has no base row at the lookup is put once in cardsToCreate and once in
\* mtgCardsToCreate; when the batch commits, cards holds exactly one row
\* written for it, with an id no row had before, mtg_cards holds exactly one
\* row with that card_id, and the batch's inserted count is the number of
\* cards so created.
C11_CreatePath ==
    [][ \A p \in Procs, w \in Workers :
          LET b == worker[p][w].batch
              r == runId[p]
          IN  /\ Classified(p, w) =>
                   \A i \in 1..Len(batches[p][b]) :
                      LET card == batches[p][b][i] IN
                      ( /\ ~MissingKey(card)
                        /\ ~CursorSkips(card, lastImport[p], now)
                        /\ IsNil(CardMap(cards, CardKey(card))) )
                      => /\ CountFor(worker'[p][w].sets.cardsToCreate, r, b, i) = 1
                         /\ CountFor(worker'[p][w].sets.mtgCardsToCreate, r, b, i) = 1
                         /\ CountFor(worker'[p][w].sets.cardsToUpdate, r, b, i) = 0
              /\ Committed(p, w) =>
                   /\ worker'[p][w].inserted = Len(worker[p][w].sets.cardsToCreate)
                   /\ Cardinality(cards') = Cardinality(cards) + worker'[p][w].inserted
                   /\ \A i \in 1..Len(batches[p][b]) :
                        PreparedFor(worker[p][w].sets.cardsToCreate, r, b, i) =>
                          LET new == { c \in cards' : c.by = <<r, b, i>> } IN
                          /\ Cardinality(new) = 1
                          /\ \A c \in new :
                               /\ RowKey(c) = CardKey(batches[p][b][i])
                               /\ ~\E old \in cards : old.id = c.id
                               /\ ~\E m \in mtg_cards : m.card_id = c.id
                               /\ Cardinality({ m \in mtg_cards' : m.card_id = c.id }) = 1
      ]_vars

\* C11 witness: a batch that created two cards has committed
C11_Witness ==
    \E p \in Procs, w \in Workers :
        /\ worker[p][w].pc = "report"
        /\ ~worker[p][w].err
        /\ worker[p][w].inserted = 2
        /\ Cardinality({ c \in cards : c.by[1] = runId[p] /\ c.by[2] = worker[p][w].batch }) = 2

\* C12: self-heal. A valid card that the cursor does not skip and whose key
\* has a base row without an extension row at the lookup is put once in
\* mtgCardsToCreate, with the card_id of that base row, and in no other set;
\* when the batch commits, mtg_cards gains exactly one row written for it,
\* whose card_id is the id of a base row that existed before, and no base row
\* is inserted or updated for it.
C12_SelfHeal ==
    [][ \A p \in Procs, w \in Workers :
          LET b == worker[p][w].batch
              r == runId[p]
          IN  /\ Classified(p, w) =>
                   \A i \in 1..Len(batches[p][b]) :
                      LET card == batches[p][b][i]
                          ex == CardMap(cards, CardKey(card))
                          sets == worker'[p][w].sets
                      IN  ( /\ ~MissingKey(card)
                            /\ ~CursorSkips(card, lastImport[p], now)
                            /\ ~IsNil(ex)
                            /\ ExtRows(ex) = {} )
                          => /\ CountFor(sets.mtgCardsToCreate, r, b, i) = 1
                             /\ \A k \in 1..Len(sets.mtgCardsToCreate) :
                                   sets.mtgCardsToCreate[k].by = <<r, b, i>>
                                      => sets.mtgCardsToCreate[k].card_id = ex.id
                             /\ CountFor(sets.cardsToCreate, r, b, i) = 0
                             /\ CountFor(sets.cardsToUpdate, r, b, i) = 0
                             /\ CountFor(sets.mtgCardsToUpdate, r, b, i) = 0
              /\ Committed(p, w) =>
                   \A i \in 1..Len(batches[p][b]) :
                      ( /\ PreparedFor(worker[p][w].sets.mtgCardsToCreate, r, b, i)
                        /\ ~PreparedFor(worker[p][w].sets.cardsToCreate, r, b, i) )
                      => LET new == { m \in mtg_cards' \ mtg_cards : m.by = <<r, b, i>> } IN
                         /\ Cardinality(new) = 1
                         /\ \A m \in new : \E c \in cards : c.id = m.card_id
                                              /\ RowKey(c) = CardKey(batches[p][b][i])
                         /\ ~\E c \in cards' : c.by = <<r, b, i>>
      ]_vars

\* C12 witness: a batch that only re-created an extension row has committed
C12_Witness ==
    \E p \in Procs, w \in Workers :
        /\ worker[p][w].pc = "report"
        /\ ~worker[p][w].err
        /\ worker[p][w].sets.cardsToCreate = <<>>
        /\ Len(worker[p][w].sets.mtgCardsToCreate) >= 1
        /\ \E m \in mtg_cards : m.by[1] = runId[p] /\ m.by[2] = worker[p][w].batch

\* card i of batch b of p is in none of the four sets
InNoSet(sets, r, b, i) ==
    /\ ~PreparedFor(sets.cardsToCreate, r, b, i)
    /\ ~PreparedFor(sets.mtgCardsToCreate, r, b, i)
    /\ ~PreparedFor(sets.cardsToUpdate, r, b, i)
    /\ ~PreparedFor(sets.mtgCardsToUpdate, r, b, i)

\* C13: cursor short-circuit. When a batch is classified, a card whose
\* provider timestamp parses and is not after the cursor the call read enters
\* no set, whatever the catalog holds for its key; a valid card is classified
\* by the catalog alone (created when its key has no base row, updated when
\* the stored name differs) when the call read no cursor or when the card has
\* no parsable timestamp.
C13_CursorShortCircuit ==
    [][ \A p \in Procs, w \in Workers :
          Classified(p, w) =>
            LET b == worker[p][w].batch
                r == runId[p]
                sets == worker'[p][w].sets
            IN  \A i \in 1..Len(batches[p][b]) :
                  LET card == batches[p][b][i]
                      ex == CardMap(cards, CardKey(card))
                  IN  /\ ( /\ card.updated_at # NoTime
                           /\ lastImport[p] # NoTime
                           /\ card.updated_at <= lastImport[p] )
                         => InNoSet(sets, r, b, i)
                      /\ ( /\ ~MissingKey(card)
                           /\ (lastImport[p] = NoTime \/ card.updated_at = NoTime) )
                         => /\ IsNil(ex) => PreparedFor(sets.cardsToCreate, r, b, i)
                            /\ (~IsNil(ex) /\ ExtRows(ex) # {} /\ ex.name # card.name)
                                  => PreparedFor(sets.cardsToUpdate, r, b, i)
      ]_vars

\* C13 witness: a batch was classified in a call that read a cursor; a card
\* of it with an older timestamp and no base row entered no set, and a card
\* without timestamp was classified
C13_Witness ==
    \E p \in Procs, w \in Workers :
        LET b == worker[p][w].batch IN
        /\ worker[p][w].pc = "tx"
        /\ lastImport[p] # NoTime
        /\ \E i \in 1..Len(batches[p][b]) :
              /\ batches[p][b][i].updated_at # NoTime
              /\ batches[p][b][i].updated_at <= lastImport[p]
              /\ IsNil(CardMap(cards, CardKey(batches[p][b][i])))
              /\ InNoSet(worker[p][w].sets, runId[p], b, i)
        /\ \E j \in 1..Len(batches[p][b]) :
              /\ batches[p][b][j].updated_at = NoTime
              /\ ~InNoSet(worker[p][w].sets, runId[p], b, j)

\* every batch of p was dispatched, the queue is closed and drained, every
\* worker has left its loop and every batch has committed or failed
AllWorkDone(p) ==
    /\ sent[p] = Len(batches[p])
    /\ chanClosed[p]
    /\ Len(batchChan[p]) = 0
    /\ \A w \in Workers : worker[p][w].pc = "exited"
    /\ \A b \in Batches(p) : outcome[p][b] # "none"

\* C14: cursor write is last. The cursor row changes only in a step of a call
\* that is at its cursor write, and a call evaluates the cursor value and
\* writes it only after it closed the batch queue and every worker finished
\* every dispatched batch and left its loop.
C14_CursorWriteLast ==
    [][ /\ \A p \in Procs : pc'[p] \in {"now", "write"} => AllWorkDone(p)'
        /\ last_import' # last_import =>
              \E p \in Procs : pc[p] = "write" /\ AllWorkDone(p)
      ]_vars

\* C14 witness: a call of at least two batches is about to write the cursor
C14_Witness ==
    \E p \in Procs :
        /\ pc[p] = "write"
        /\ Len(batches[p]) >= 2
        /\ \E b \in Batches(p) : outcome[p][b] = "committed"

\* C15: a worker error does not stop workers. A worker that holds the result
\* of processBatch can always report it, whether or not errorChan is full,
\* and its next step takes it back to receiving from the queue; a worker
\* waiting at a non-empty queue can always receive, whatever the other workers
\* returned; and a worker leaves its loop only when the queue is closed and
\* empty.
C15_WorkerErrorDoesNotStopWorkers ==
    /\ [](\A p \in Procs, w \in Workers :
            /\ worker[p][w].pc = "report" => ENABLED Report(p, w)
            /\ (worker[p][w].pc = "range" /\ Len(batchChan[p]) > 0)
                  => ENABLED Receive(p, w))
    /\ [][ \A p \in Procs, w \in Workers :
             runId'[p] = runId[p] =>
               /\ (worker[p][w].pc = "report" /\ worker'[p][w] # worker[p][w])
                     => worker'[p][w].pc = "range"
               /\ (worker[p][w].pc # "exited" /\ worker'[p][w].pc = "exited")
                     => chanClosed[p] /\ Len(batchChan[p]) = 0
         ]_vars

\* C15 witness: more batches have failed than errorChan holds, every failure
\* was reported (one found the channel full) while the producer took none,
\* and a worker is processing a further batch
C15_Witness ==
    \E p \in Procs :
        /\ pc[p] \in {"dispatch", "wait"}
        /\ errorChan[p] = errorChanSize
        /\ Cardinality({b \in Batches(p) : outcome[p][b] = "failed"}) > errorChanSize
        /\ \A w \in Workers : worker[p][w].pc # "report"
        /\ \E w \in Workers : worker[p][w].pc \in {"query", "tx"}

\* the batch transactions the first n workers of p have open
RECURSIVE OpenTransactions(_, _)
OpenTransactions(p, n) ==
    IF n = 0 THEN 0 ELSE worker[p][n].open + OpenTransactions(p, n - 1)

\* C16: within one run, each worker has at most one batch transaction open
\* and the open batch transactions are at most as many as the workers.
C16_OpenTransactionsBounded ==
    \A p \in Procs :
        /\ \A w \in Workers : worker[p][w].open <= 1
        /\ OpenTransactions(p, numWorkers) <= numWorkers

\* C16 witness: every worker of a call has a transaction open, one of them
\* after an earlier batch of the call failed
C16_Witness ==
    \E p \in Procs :
        /\ OpenTransactions(p, numWorkers) = numWorkers
        /\ \E b \in Batches(p) : outcome[p][b] = "failed"

\* the elements decoded from a stream that has both brackets
Elements(stream) == SubSeq(stream, 2, Len(stream) - 1)

RECURSIVE Concat(_)
Concat(bs) == IF Len(bs) = 0 THEN <<>> ELSE Head(bs) \o Concat(Tail(bs))

\* C17: batching. Once the decode loop has ended on a stream of n records
\* with batch size B, there are ceil(n/B) batches, every batch but the last
\* holds exactly B records, the last holds between 1 and B, no batch is empty
\* and the batches concatenated in build order are the decoded sequence.
C17_Batching ==
    \A p \in Procs :
        pc[p] = "dispatch" =>
            LET bs == batches[p]
                n == Len(Elements(reader[p]))
                B == batchSize
            IN  /\ Len(bs) = (n + B - 1) \div B
                /\ \A k \in 1..(Len(bs) - 1) : Len(bs[k]) = B
                /\ Len(bs) > 0 => Len(bs[Len(bs)]) \in 1..B
                /\ \A k \in 1..Len(bs) : Len(bs[k]) > 0
                /\ Concat(bs) = Elements(reader[p])

\* C17 witness: two full batches of more than one record and a partial one
\* were built
C17_Witness ==
    \E p \in Procs :
        /\ pc[p] = "dispatch"
        /\ batchSize > 1
        /\ Len(batches[p]) = 3
        /\ Len(batches[p][3]) < batchSize

\* the batch without its cards that miss a natural key
RECURSIVE WithoutMissingKey(_)
WithoutMissingKey(batch) ==
    IF Len(batch) = 0 THEN <<>>
    ELSE IF MissingKey(Head(batch)) THEN WithoutMissingKey(Tail(batch))
    ELSE <<Head(batch)>> \o WithoutMissingKey(Tail(batch))

\* C18: missing natural key. A card with an empty set code or an empty
\* collector number is left out of the lookup and of the four sets, the other
\* cards of its batch are classified as if it were absent, and when the
\* worker reports the batch, whose processing did not fail, the errors of the
\* run (errorChan, the only collection of errors a run has) gain an entry for
\* the card.
C18_MissingNaturalKey ==
    [][ \A p \in Procs, w \in Workers :
          LET b == worker[p][w].batch
              r == runId[p]
              missing == { i \in 1..Len(batches[p][b]) : MissingKey(batches[p][b][i]) }
          IN  /\ Classified(p, w) =>
                   LET sets == worker'[p][w].sets
                       rest == Classify(WithoutMissingKey(batches[p][b]), cards,
                                        mtg_cards, lastImport[p], now, r, b)
                   IN  /\ \A i \in missing : InNoSet(sets, r, b, i)
                       /\ Len(sets.cardsToCreate) = Len(rest.cardsToCreate)
                       /\ Len(sets.mtgCardsToCreate) = Len(rest.mtgCardsToCreate)
                       /\ Len(sets.cardsToUpdate) = Len(rest.cardsToUpdate)
                       /\ Len(sets.mtgCardsToUpdate) = Len(rest.mtgCardsToUpdate)
              /\ ( /\ worker[p][w].pc = "report"
                   /\ worker'[p][w].pc = "range"
                   /\ ~worker[p][w].err
                   /\ missing # {} )
                 => errorChan'[p] > errorChan[p]
      ]_vars

\* an element of the stream does not decode
HasUndecodable(stream) == \E i \in 1..Len(stream) : Undecodable(stream[i])

\* C19: fail-fast decode. A call whose stream holds an element that does not
\* decode builds and dispatches no batch, writes no row, returns an error as
\* its only outcome, and the cursor does not change while it runs.
C19_FailFastDecode ==
    /\ [](\A p \in Procs :
            HasUndecodable(reader[p]) =>
               /\ batches[p] = <<>>
               /\ sent[p] = 0
               /\ Len(batchChan[p]) = 0
               /\ \A c \in cards : c.by[1] # runId[p]
               /\ \A m \in mtg_cards : m.by[1] # runId[p]
               /\ pc[p] \in {"decode", "returned"}
               /\ pc[p] = "returned" <=> result[p] = "err"
               /\ pc[p] = "decode" <=> result[p] = "none")
    /\ [][ \A p \in Procs :
             HasUndecodable(reader'[p]) => last_import' = last_import ]_vars

\* C19 witness: a call has returned an error on a stream whose first element
\* decoded and whose second did not
C19_Witness ==
    \E p \in Procs :
        /\ pc[p] = "returned"
        /\ result[p] = "err"
        /\ Len(reader[p]) > 3
        /\ ~Undecodable(reader[p][2])
        /\ Undecodable(reader[p][3])

\* the stream of p ends before the closing bracket of the dataset
Truncated(p) == reader[p] \in Truncations(upstream)

\* C20: truncated stream. A call whose stream ends before the closing
\* bracket, wherever it ends, builds and dispatches no batch, writes no row,
\* has an error as its only outcome, and the cursor does not change while it
\* runs.
C20_TruncatedStreamFails ==
    /\ [](\A p \in Procs :
            (Truncated(p) /\ pc[p] # "idle") =>
               /\ batches[p] = <<>>
               /\ sent[p] = 0
               /\ \A c \in cards : c.by[1] # runId[p]
               /\ \A m \in mtg_cards : m.by[1] # runId[p]
               /\ result[p] \in {"none", "err"}
               /\ pc[p] \notin {"now", "write"})
    /\ [][ \A p \in Procs :
             (Truncated(p)' /\ pc'[p] # "idle") => last_import' = last_import ]_vars

\* the sleeps before the attempts of one call: none, 2s, 4s
ExpectedWaits ==
    [k \in 1..maxRetries |-> IF k = 1 THEN 0 ELSE initialBackoff * 2^(k - 2)]

\* C21: download retry. A call makes at most maxRetries requests, after no
\* wait, 2s and 4s; after a successful attempt it makes no further request;
\* after a failed attempt that is not the last it is at the next request,
\* nothing returned; the last failure returns an error; and a call that
\* exhausted its attempts built no batch, wrote no row and left the cursor.
C21_DownloadRetry ==
    /\ [](\A p \in Procs :
            /\ Len(dl[p].waits) <= maxRetries
            /\ dl[p].waits = SubSeq(ExpectedWaits, 1, Len(dl[p].waits))
            /\ retry[p] = maxRetries =>
                  /\ result[p] = "err"
                  /\ batches[p] = <<>>
                  /\ sent[p] = 0
                  /\ \A c \in cards : c.by[1] # runId[p]
                  /\ \A m \in mtg_cards : m.by[1] # runId[p])
    /\ [][ \A p \in Procs :
             /\ (runId'[p] = runId[p] /\ pc[p] # "download")
                   => dl'[p].waits = dl[p].waits
             /\ (retry'[p] = retry[p] + 1 /\ retry'[p] < maxRetries)
                   => /\ pc'[p] = "download"
                      /\ dl'[p].step = "request"
                      /\ result'[p] = "none"
             /\ (retry'[p] = retry[p] + 1 /\ retry'[p] = maxRetries)
                   => /\ pc'[p] = "returned"
                      /\ result'[p] = "err"
             /\ retry'[p] = maxRetries => last_import' = last_import
         ]_vars

\* C21 witness: a call that followed a successful one has returned an error
\* after three requests, the second of them after 2s and the third after 4s
C21_Witness ==
    \E p \in Procs :
        /\ retry[p] = maxRetries
        /\ result[p] = "err"
        /\ dl[p].waits = ExpectedWaits
        /\ cards # {}
        /\ last_import # NoTime

\* C23: cache freshness. The cache check returns the cached file, no
\* request made, exactly when it found the file present, younger than 24h
\* and openable; otherwise the call goes to its first request, and when
\* downloadBulkData then returns successfully the body received has replaced
\* the cache file and is what the call reads.
C23_CacheFreshness ==
    /\ [][ \A p \in Procs :
             (dl[p].step = "stat" /\ dl'[p].step # "stat" /\ runId'[p] = runId[p]) =>
                /\ dl'[p].stat = "hit" <=>
                      /\ pc'[p] = "decode"
                      /\ cacheFile.exists
                      /\ reader'[p] = cacheFile.body
                /\ dl'[p].stat # "hit" <=>
                      /\ pc'[p] = "download"
                      /\ dl'[p].step = "request"
                /\ cacheFile' = cacheFile
         ]_vars
    /\ [](\A p \in Procs :
            /\ dl[p].stat = "hit" => dl[p].waits = <<>>
            /\ (dl[p].stat \in {"absent", "stale", "unopenable"} /\ pc[p] = "decode") =>
                  /\ Len(dl[p].waits) >= 1
                  /\ cacheFile = File(dl[p].resp)
                  /\ reader[p] = dl[p].resp)

\* C23 witness: the cache check returned a file younger than 24h whose body
\* is no longer the provider's dataset
C23_Witness ==
    \E p \in Procs :
        /\ dl[p].stat = "hit"
        /\ pc[p] = "decode"
        /\ reader[p] = cacheFile.body
        /\ reader[p] # Stream(upstream)

\* a body that is a whole dataset array: both brackets and cards between
CompleteBody(b) ==
    /\ Len(b) >= 2
    /\ b[1] = ArrayStart
    /\ b[Len(b)] = ArrayEnd
    /\ \A i \in 2..(Len(b) - 1) : b[i] \notin {ArrayStart, ArrayEnd, Malformed, Partial}

\* C24: cache atomicity. In every state, those after the process was killed
\* during a download included, the cache path holds no file or a whole body;
\* and the cache file changes only in the rename of a temporary file that
\* holds the whole body of the response received.
C24_CacheAtomicity ==
    /\ [](cacheFile.exists => CompleteBody(cacheFile.body))
    /\ [][ cacheFile' # cacheFile =>
             \E p \in Procs :
                /\ dl[p].step = "rename"
                /\ tempFile[p] = File(dl[p].resp)
                /\ cacheFile' = File(dl[p].resp)
         ]_vars

\* C24 witness: the process was killed while its temporary file held a part
\* of the new body, and the cache path holds the previous download
C24_Witness ==
    \E p \in Procs :
        /\ pc[p] = "crashed"
        /\ tempFile[p].exists
        /\ Len(tempFile[p].body) \in 1..(Len(dl[p].resp) - 1)
        /\ cacheFile.exists
        /\ cacheFile.body # dl[p].resp

\* C22 (as claimed): Pokemon retry exhaustion. When the retry loop of
\* ImportSet has ended with every attempt for the page failed, the next step
\* of ImportSet returns an error; the page is not taken for the empty page
\* that ends a set.
C22_PokemonRetryExhaustion ==
    [][ (pk.pc = "check" /\ pk.got = "failed")
           => (pk'.pc = "returned" /\ pk'.result = "err") ]_vars

\* the importers called so far in the pass are the first registered ones, in
\* registration order, each once
InRegistrationOrder ==
    /\ Len(sch.log) <= Len(Importers)
    /\ sch.log = SubSeq(Importers, 1, Len(sch.log))

\* C25: Scheduler start. Once runCardImports has begun, the passes begun are
\* the one made at start plus one for each tick the loop received, so the
\* first pass precedes every tick; within a pass Import is called once per
\* registered importer in registration order, and a pass that has ended has
\* called every one of them; a tick is received only between passes and
\* begins exactly one pass.
C25_SchedulerStart ==
    /\ [](sch.pc \in {"pass", "select", "exited"} => sch.passes = 1 + sch.ticks)
    /\ [](sch.ticks <= sch.fired)
    /\ [](InRegistrationOrder)
    /\ [](sch.pc \in {"select", "exited"} /\ sch.passes > 0 => sch.log = Importers)
    /\ [][ sch'.ticks # sch.ticks
             => /\ sch.pc = "select"
                /\ sch'.ticks = sch.ticks + 1
                /\ sch'.passes = sch.passes + 1
                /\ sch'.pc = "pass" /\ sch'.log = <<>> ]_vars
    /\ [][ sch'.passes # sch.passes
             => \/ sch.pc = "started" /\ sch'.passes = 1 /\ sch'.ticks = 0
                \/ sch'.ticks = sch.ticks + 1 ]_vars

\* a tick has been received and the pass it began has called every importer
C25_Witness ==
    /\ sch.pc = "select"
    /\ sch.ticks = 1
    /\ sch.passes = 2
    /\ sch.log = Importers

\* C26: Per-source failure isolation. When an importer's Import returns an
\* error the pass goes on with the next registered importer, or ends in the
\* loop's select after the last one: the loop does not exit on it. So a pass
\* that has ended holds one result per registered importer whatever the
\* results were, and the loop has exited only after Stop.
C26_FailureIsolation ==
    /\ [][ (sch.pc = "pass" /\ sch.running /\ ~sch'.running
              /\ sch'.results = Append(sch.results, "err"))
             => /\ sch'.idx = sch.idx + 1
                /\ sch'.log = sch.log
                /\ sch'.pc = IF sch.idx < Len(Importers) THEN "pass" ELSE "select" ]_vars
    /\ [](sch.pc = "pass" /\ ~sch.running
             => sch.idx <= Len(Importers) /\ Len(sch.results) = sch.idx - 1)
    /\ [](sch.pc \in {"select", "exited"} /\ sch.passes > 0
             => Len(sch.results) = Len(Importers))
    /\ [](sch.pc = "exited" => sch.stop)

\* the first importer of a pass returned an error and the last one has been
\* called in the same pass, and returned an error too, the loop being at its
\* select
C26_Witness ==
    /\ sch.pc = "select"
    /\ sch.results[1] = "err"
    /\ sch.results[Len(Importers)] = "err"
    /\ sch.log = Importers

\* C27 (as claimed): Scheduler stop. When the loop is at its select and Stop
\* has been called, the loop begins no pass: its next step is the exit, also
\* with a tick pending in ticker.C.
C27_NoPassAfterStop ==
    [][ (sch.pc = "select" /\ sch.stop) => sch'.pc # "pass" ]_vars

\* the MTG call that was in flight when Stop was called
StoppedInFlight ==
    /\ sch.stop
    /\ sch.stopAt.running
    /\ Importers[sch.stopAt.idx] = "mtg"
    /\ sch.stopAt.run \notin {"idle", "returned"}

\* C28: Stop does not cancel work in flight. The step of Stop changes the
\* stop signal only: the call in flight, its goroutines, the database and the
\* position of the pass are as before. A pass during which Stop was called
\* still calls every importer left in it, and an MTG call that was in flight
\* at Stop and in which nothing failed returns nil with the cursor written.
C28_StopDoesNotCancel ==
    /\ [][ (~sch.stop /\ sch'.stop)
             => /\ UNCHANGED <<mtgVars, pk>>
                /\ sch'.pc = sch.pc /\ sch'.idx = sch.idx
                /\ sch'.running = sch.running /\ sch'.log = sch.log
                /\ sch'.results = sch.results ]_vars
    /\ [](sch.stop /\ sch.pc = "pass" /\ ~sch.running => ENABLED CallImporter)
    /\ [](sch.stop /\ sch.pc \in {"select", "exited"} /\ sch.passes > 0
             => sch.log = Importers)
    /\ [](StoppedInFlight /\ sch.passes = 1 /\ pc["sched"] = "returned" /\ faults = 0
             => result["sched"] = "nil" /\ last_import = tsArg["sched"])

\* Stop was called while the workers of the MTG call were processing; the
\* call has returned nil with the cursor written and the loop has exited
C28_Witness ==
    /\ StoppedInFlight
    /\ sch.stopAt.run = "dispatch"
    /\ sch.passes = 1
    /\ result["sched"] = "nil"
    /\ last_import = tsArg["sched"]
    /\ last_import # NoTime
    /\ sch.pc = "exited"

\* the base rows the current call of p inserted (their id was made by it) and
\* the base rows made by an earlier call that it updated; both are rows of
\* the committed table, so written by batches that committed
InsertedBy(p) == { c \in cards : c.id[1] = runId[p] }
UpdatedBy(p) == { c \in cards : c.by[1] = runId[p] /\ c.id[1] # runId[p] }

\* C29 (as claimed): aggregated counts are exact. In the step in which
\* ImportBulkData writes its summary and returns nil, totalInserted and
\* totalUpdated are the numbers of base rows that the committed batches of
\* the call inserted and updated, whatever the interleaving of the workers
\* and the stats goroutine was.
C29_CountsExact ==
    [][ \A p \in Procs :
           (pc[p] = "write" /\ result'[p] = "nil")
              => /\ totalInserted[p] = Cardinality(InsertedBy(p))
                 /\ totalUpdated[p] = Cardinality(UpdatedBy(p)) ]_vars

\* C30: rows are mutated in place and never deleted. In every step of the
\* importer every base row stays in cards with its id, created_at and
\* natural key (an update changes the other columns only), and every
\* extension row stays in mtg_cards with its id, card_id and created_at.
C30_RowsNeverDeleted ==
    [][ /\ \A c \in cards : \E d \in cards' :
              /\ d.id = c.id
              /\ d.created_at = c.created_at
              /\ RowKey(d) = RowKey(c)
              /\ d.set_code = c.set_code /\ d.number = c.number
        /\ \A m \in mtg_cards : \E n \in mtg_cards' :
              /\ n.id = m.id
              /\ n.card_id = m.card_id
              /\ n.created_at = m.created_at
        /\ Cardinality(cards') >= Cardinality(cards)
        /\ Cardinality(mtg_cards') >= Cardinality(mtg_cards) ]_vars

\* a base row made by one call has been updated by a later call, and its
\* extension row with it
C30_Witness ==
    \E c \in cards : \E m \in mtg_cards :
        /\ m.card_id = c.id
        /\ c.by[1] > c.id[1]
        /\ m.by[1] > m.id[1]
        /\ c.updated_at > c.created_at

\* a date field of the card is empty or does not parse
BadDate(card) == card.updated_at = NoTime \/ card.released_at = NoTime

\* the batch with every empty or unparsable date replaced by the valid date t
WithValidDates(batch, t) ==
    [i \in DOMAIN batch |->
        [batch[i] EXCEPT !.updated_at = IF @ = NoTime THEN t ELSE @,
                         !.released_at = IF @ = NoTime THEN t ELSE @]]

\* C31: bad date fields are never fatal. processBatch has no error return in
\* its date handling: without a storage failure the classification of a batch
\* always reaches the transaction, and the sets it prepared are those it
\* prepares for the same batch with every absent or unparsable date replaced
\* by a valid one (the time of the classification), so the other records are
\* classified and written alike; and no row is stored with a date left unset.
C31_BadDatesNotFatal ==
    /\ [][ \A p \in Procs, w \in Workers :
             LET wk == worker[p][w]
                 batch == batches[p][wk.batch]
             IN  (wk.pc = "query" /\ worker'[p][w] # wk /\ faults' = faults)
                    => /\ worker'[p][w].pc = "tx"
                       /\ worker'[p][w].sets =
                             Classify(WithValidDates(batch, now), cards, mtg_cards,
                                      lastImport[p], now, runId[p], wk.batch) ]_vars
    /\ [](\A m \in mtg_cards : m.released_at # NoTime /\ m.updated_at # NoTime)
    /\ [](\A c \in cards : c.updated_at # NoTime /\ c.created_at # NoTime)

\* a batch of a card with both dates bad and a card with both dates valid
\* has committed, and both have their base and extension rows
C31_Witness ==
    \E w \in Workers :
        LET wk == worker["sched"][w]
            batch == batches["sched"][wk.batch]
        IN  /\ wk.pc = "report"
            /\ ~wk.err
            /\ Len(batch) = 2
            /\ batch[1].updated_at = NoTime /\ batch[1].released_at = NoTime
            /\ ~BadDate(batch[2])
            /\ \A i \in 1..2 : \E c \in cards : \E m \in mtg_cards :
                  /\ RowKey(c) = CardKey(batch[i])
                  /\ m.card_id = c.id
                  /\ c.by = <<runId["sched"], wk.batch, i>>

\* a step of a goroutine that the call of p started: a worker, the goroutine
\* closing doneChan, the stats goroutine
GoroutineStep(p) ==
    \/ CloseDone(p)
    \/ StatsCollect(p) \/ StatsExit(p)
    \/ \E w \in Workers :
          \/ Receive(p, w) \/ WorkerExit(p, w)
          \/ Query(p, w)
          \/ Transaction(p, w)
          \/ Report(p, w)

\* C32 (as claimed): join/drain on every exit path. On whatever path the
\* call returned, the goroutines it started terminate: once it has returned
\* and none of them can take a further step, every worker has left its loop
\* and the stats goroutine has returned.
C32_GoroutinesTerminate ==
    \A p \in Procs :
        (pc[p] = "returned" /\ statsPc[p] # "idle" /\ ~ENABLED GoroutineStep(p))
            => /\ \A w \in Workers : worker[p][w].pc = "exited"
               /\ statsPc[p] = "exited"

\* the position of a kind of statement in the transaction body
StmtRank(op) ==
    CASE op = "insert_card" -> 1
      [] op = "insert_mtg" -> 2
      [] op = "update_card" -> 3
      [] op = "update_mtg" -> 4

\* the rows of the statements of kind op, in the order of the statements
RECURSIVE RowsOf(_, _)
RowsOf(stmts, op) ==
    IF stmts = <<>> THEN <<>>
    ELSE (IF Head(stmts).op = op THEN <<Head(stmts).row>> ELSE <<>>)
         \o RowsOf(Tail(stmts), op)

\* C33: write order within a batch transaction. The statements of a
\* transaction are the base inserts, then the extension inserts, then the
\* base updates, then the extension updates, each in the order in which the
\* classification loop appended the rows. So an extension insert never fails
\* for want of its base row, and every extension row stored has its base row.
C33_WriteOrder ==
    /\ [](\A p \in Procs, w \in Workers :
            worker[p][w].pc = "tx" =>
               LET sets == worker[p][w].sets
                   stmts == Statements(sets)
               IN  /\ \A i, j \in 1..Len(stmts) :
                         i < j => StmtRank(stmts[i].op) <= StmtRank(stmts[j].op)
                   /\ RowsOf(stmts, "insert_card") = sets.cardsToCreate
                   /\ RowsOf(stmts, "insert_mtg") = sets.mtgCardsToCreate
                   /\ RowsOf(stmts, "update_card") = sets.cardsToUpdate
                   /\ RowsOf(stmts, "update_mtg") = sets.mtgCardsToUpdate)
    /\ [](\A p \in Procs, w \in Workers :
            LET wk == worker[p][w]
            IN  (wk.pc = "report" /\ wk.err /\ ~wk.injected)
                   => Statements(wk.sets)[wk.failedAt].op # "insert_mtg")
    /\ [](\A m \in mtg_cards : \E c \in cards : c.id = m.card_id)

\* a transaction of two base inserts followed by two extension inserts has
\* committed
C33_Witness ==
    \E w \in Workers :
        LET wk == worker["sched"][w]
        IN  /\ wk.pc = "report"
            /\ ~wk.err
            /\ Len(wk.sets.cardsToCreate) = 2
            /\ Len(wk.sets.mtgCardsToCreate) = 2
            /\ \A i \in 1..2 : \E m \in mtg_cards :
                  m.id = wk.sets.mtgCardsToCreate[i].id

\* C34 (as claimed): deadlock freedom of a run. Under fair scheduling, with
\* the download and every processBatch terminating, every call of
\* ImportBulkData that has begun eventually returns, for every number of
\* batches and every interleaving.
C34_RunReturns ==
    (pc["sched"] = "fetchInfo") ~> (pc["sched"] = "returned")

\* C35 (as claimed): success implies no lost batch. In the step in which a
\* call writes the cursor and returns nil, every batch of the call has
\* committed, and every card of its batches that has a natural key and that
\* the cursor it read does not exclude has a base row with an extension row.
C35_SuccessImpliesNoLostBatch ==
    [][ \A p \in Procs :
           (pc[p] = "write" /\ result'[p] = "nil")
              => /\ \A b \in Batches(p) : outcome[p][b] = "committed"
                 /\ \A b \in 1..Len(batches[p]) : \A i \in 1..Len(batches[p][b]) :
                       LET card == batches[p][b][i]
                       IN  (~MissingKey(card) /\ ~CursorSkips(card, lastImport[p], now))
                              => \E c \in cards' : /\ RowKey(c) = CardKey(card)
                                                   /\ ExtRows(c) # {} ]_vars

\* C36 (as claimed): no upstream change is permanently skipped. A change
\* that the provider made, with its timestamp, while the previous successful
\* call was between its download and its cursor write is applied by the next
\* successful call whose snapshot holds it: when that call returns nil, every
\* card of its snapshot has a base row with the card's name (a field that
\* change detection compares with the stored row).
C36_NoChangeSkipped ==
    [][ (pc["sched"] = "write" /\ result'["sched"] = "nil" /\ prev.result = "nil")
          => \A b \in 1..Len(batches["sched"]) : \A i \in 1..Len(batches["sched"][b]) :
                LET card == batches["sched"][b][i]
                IN  ~MissingKey(card)
                       => \E c \in cards' : /\ RowKey(c) = CardKey(card)
                                            /\ c.name = card.name ]_vars

\* C37 (as claimed): duplicate natural keys do not lose other records. Once
\* the call has returned and its workers have come to rest, every card with a
\* natural key of every batch that a worker processed has exactly one base
\* row, also when the key occurs twice in the batch or in two batches that
\* were processed concurrently.
C37_DuplicateKeysLoseNothing ==
    (pc["sched"] = "returned" /\ statsPc["sched"] # "idle"
        /\ ~ENABLED GoroutineStep("sched"))
      => \A b \in Batches("sched") :
            outcome["sched"][b] # "none"
               => \A i \in 1..Len(batches["sched"][b]) :
                     LET card == batches["sched"][b][i]
                     IN  ~MissingKey(card)
                            => Cardinality({ c \in cards : RowKey(c) = CardKey(card) }) = 1

\* worker w of the call of p begins a batch transaction (database.Begin in
\* processBatch) or ends one (Commit or Rollback) in this step
TransactionStep(p, w) ==
    \/ worker[p][w].pc = "query" /\ worker'[p][w].pc = "tx"
    \/ worker[p][w].pc = "tx" /\ worker'[p][w].pc = "report"

\* C38 (as claimed): no catalog writes after the run has returned. Once
\* ImportBulkData has returned, nil or an error, no worker the call started
\* begins or commits a further batch transaction.
C38_NoWritesAfterReturn ==
    [][\A p \in Procs : \A w \in Workers :
           pc[p] = "returned" => ~TransactionStep(p, w)]_vars

\* the same for the calls that returned nil
C38_NoWritesAfterSuccess ==
    [][\A p \in Procs : \A w \in Workers :
           (pc[p] = "returned" /\ result[p] = "nil") => ~TransactionStep(p, w)]_vars

====
